---- MODULE Spec2Model ----
(***************************************************************************)
(* A model of LyricsFlow-TypeF: the matching orchestrator                  *)
(* (LyricsService.match_best_lyrics), the aggregator                       *)
(* (Aggregator.search_all, Aggregator.fetch_lyric) and the cleaner         *)
(* (LyricsCleaner.clean).                                                  *)
(*                                                                         *)
(* Specifications:                                                         *)
(*   Spec       match_best_lyrics from its entry to the sorted candidate   *)
(*              list (query expansion, translation calls, the strategy     *)
(*              loop with its provider searches, scoring, early exit).     *)
(*   FetchSpec  match_best_lyrics from the sorted candidate list to its    *)
(*              return (top-N, semaphore, fetch_one, selection).           *)
(*   RetrySpec  Aggregator.fetch_lyric (the retry loop).                   *)
(*   CleanSpec  LyricsCleaner.clean applied to bounded inputs.             *)
(*                                                                         *)
(* Scores are kept in tenths (score 80 is 800): title_score * 0.6 +        *)
(* artist_score * 0.4 is 6 * title_score + 4 * artist_score in tenths.     *)
(***************************************************************************)
EXTENDS Integers, Sequences, FiniteSets, TLC

VARIABLES
    \* ---- match_best_lyrics, search phase (Spec) ----
    metadata,        \* the request: [artist, has_title, ascii, style]
    has_translator,  \* module flag: deep_translator was importable
    pc,              \* position in match_best_lyrics
    call,            \* the translation call in flight, or NoCall
    romaji_changed,  \* some Romaji->JA translation differed from its input
    zh_changed,      \* some EN->ZH translation differed from its input
    search_queue,    \* the strategies, in priority order
    qi,              \* index of the strategy of the current loop iteration
    results_list,    \* per (sub-search, provider): status and response
    candidates,      \* the scored candidates that survived so far
    searched,        \* history: strategies for which search_all was called
    batch_best,      \* history: best surviving score of each searched strategy
    returned,        \* what the search phase returned: "running", "None", "fetch"
    \* ---- match_best_lyrics, fetch phase (FetchSpec) ----
    f_pc,            \* position in the fetch phase
    f_style,         \* metadata.style_instruction is set
    scored_candidates, \* the sorted candidate list
    task,            \* per top candidate: "waiting", "in_flight" or "done"
    lyrics_data,     \* per top candidate: what fetch_one returned
    semaphore,       \* free slots of asyncio.Semaphore(CONCURRENCY_LIMIT)
    cache,           \* StorageService: key -> kind of the stored result
    cache_ops,       \* history: the cache operations performed
    gsl_calls,       \* history: number of get_standardized_lyrics calls per key
    caught,          \* history: fetch_one caught an exception
    f_result,        \* the value match_best_lyrics returned
    \* ---- Aggregator.fetch_lyric (RetrySpec) ----
    r_pc,            \* position in fetch_lyric
    provider_found,  \* a registered provider carries provider_name
    attempt,         \* the loop variable of `for attempt in range(max_retries)`
    r_clock,         \* seconds the current attempt has been waiting
    r_sleeps,        \* history: number of asyncio.sleep(0.5) backoffs
    r_log,           \* history: how each attempt ended
    r_net,           \* QQ Music: what its HTTP request does on each attempt
    r_result,        \* what fetch_lyric returned
    \* ---- LyricsCleaner.clean (CleanSpec) ----
    c_pc,            \* calls of clean: "idle", "ready", "done" or "again"
    c_input,         \* lyrics.lines as passed to clean
    clean_lines,     \* the local clean_lines after the loop
    credits,         \* lyrics.credits
    lines,           \* lyrics.lines as clean leaves them
    \* ---- QrcParser._apply_translations (TransSpec) ----
    a_pc,            \* position in _apply_translations: "idle", "ready", "done"
    a_input,         \* the lines as passed in
    a_lines,         \* the lines, mutated in place
    a_trans_map,     \* trans_map: the (time, text) entries in dict order
    \* ---- QrcParser.parse (ParseSpec) ----
    p_pc,            \* position in parse: "idle", "ready" or "done"
    segments,        \* the segments of the payload
    p_trans_map,     \* trans_map as _build_trans_map returned it
    parsed_lines,    \* the lines of the LyricsData parse returns
    \* ---- the decrypters (DecryptSpec) ----
    d_pc,            \* position of the call: "idle", "ready" or "done"
    d_cipher,        \* "qrc" for QQMusicDecrypt, "krc" for KugouDecrypt
    d_text,          \* the text the payload was built from
    d_damage,        \* what was done to the payload after the helper
    d_input,         \* encrypted_text
    d_result,        \* the outcome of decrypt
    \* ---- the /match operation (MatchSpec) ----
    m_pc,            \* position in match_lyrics
    m_request,       \* the SongMetadata of the request
    m_calls,         \* the paths called so far, in order
    m_meting,        \* what match_best_lyrics_meting answered
    m_legacy,        \* what match_best_lyrics answered
    m_response,      \* the HTTP response
    \* ---- Meting._curl on a shared handle (MetingSpec) ----
    h_raw,           \* self.raw of the handle
    h_error,         \* self.error of the handle
    h_pc,            \* per request: "new", "request", "sleep" or "done"
    h_retries,       \* per request: the `retries` of its _curl call
    h_failed,        \* history, per request: attempts that failed
    h_result,        \* per request: what _curl returned
    \* ---- get_standardized_lyrics and _fetch_via_meting (GslSpec) ----
    g_pc,            \* "ready" while calls can be made
    g_text,          \* the decrypted text of the provider's payload
    g_is_lrc,        \* is_lrc as the decrypt step left it
    g_cache,         \* StorageService: the entry of the song, or None
    g_log,           \* history: one record per call
    \* ---- the two gathers of a match (RankSpec) ----
    o_pc,            \* "searching", "fetching" or "done"
    o_rl,            \* per (sub-search, provider): status, response, arrival
    o_merged,        \* the list search_all returned
    o_cands,         \* the ranked candidates
    o_data,          \* per top candidate: what its fetch returned
    o_done,          \* history: the top candidates in completion order
    o_result         \* index of the candidate returned, 0 for None

svars == <<metadata, has_translator, pc, call, romaji_changed, zh_changed,
           search_queue, qi, results_list, candidates, searched, batch_best,
           returned>>
fvars == <<f_pc, f_style, scored_candidates, task, lyrics_data, semaphore,
           cache, cache_ops, gsl_calls, caught, f_result>>
rvars == <<r_pc, provider_found, attempt, r_clock, r_sleeps, r_log, r_net,
           r_result>>
cvars == <<c_pc, c_input, clean_lines, credits, lines>>
avars == <<a_pc, a_input, a_lines, a_trans_map>>
pvars == <<p_pc, segments, p_trans_map, parsed_lines>>
dvars == <<d_pc, d_cipher, d_text, d_damage, d_input, d_result>>
mvars == <<m_pc, m_request, m_calls, m_meting, m_legacy, m_response>>
hvars == <<h_raw, h_error, h_pc, h_retries, h_failed, h_result>>
gvars == <<g_pc, g_text, g_is_lrc, g_cache, g_log>>
ovars == <<o_pc, o_rl, o_merged, o_cands, o_data, o_done, o_result>>
vars == <<svars, fvars, rvars, cvars, avars, pvars, dvars, mvars, hvars,
         gvars, ovars>>
\* the variables outside each specification
notS ==
    <<fvars, rvars, cvars, avars, pvars, dvars, mvars, hvars, gvars,
      ovars>>
notF ==
    <<svars, rvars, cvars, avars, pvars, dvars, mvars, hvars, gvars,
      ovars>>
notR ==
    <<svars, fvars, cvars, avars, pvars, dvars, mvars, hvars, gvars,
      ovars>>
notC ==
    <<svars, fvars, rvars, avars, pvars, dvars, mvars, hvars, gvars,
      ovars>>
notA ==
    <<svars, fvars, rvars, cvars, pvars, dvars, mvars, hvars, gvars,
      ovars>>
notP ==
    <<svars, fvars, rvars, cvars, avars, dvars, mvars, hvars, gvars,
      ovars>>
notD ==
    <<svars, fvars, rvars, cvars, avars, pvars, mvars, hvars, gvars,
      ovars>>
notM ==
    <<svars, fvars, rvars, cvars, avars, pvars, dvars, hvars, gvars,
      ovars>>
notH ==
    <<svars, fvars, rvars, cvars, avars, pvars, dvars, mvars, gvars,
      ovars>>
notG ==
    <<svars, fvars, rvars, cvars, avars, pvars, dvars, mvars, hvars,
      ovars>>
notO ==
    <<svars, fvars, rvars, cvars, avars, pvars, dvars, mvars, hvars,
      gvars>>

-----------------------------------------------------------------------------
(* Bounds of the model                                                     *)

\* most results in one provider's search response
MaxRes == 1
\* song ids a provider can return: 1..MaxId
MaxId == 2
\* most non-empty search responses in one call of match_best_lyrics
MaxCand == 2

\* most candidates on the sorted list the fetch phase starts from
MaxFetchCands == 6

\* most lines of an input of the cleaner
MaxLines == 25

\* most lines and most translation entries passed to _apply_translations
MaxTLines == 3
MaxTrans == 2

\* most segments of a payload passed to QrcParser.parse
MaxSegs == 2

\* most characters of a text that is encrypted
MaxText == 2

\* most lines of a LyricsData a path of /match answers
MaxMatchLines == 2

\* requests that go through one Meting handle
MaxReq == 2

\* calls of get_standardized_lyrics / _fetch_via_meting for one song
MaxCalls == 2

-----------------------------------------------------------------------------
(* Program constants                                                       *)

\* the score threshold of match_best_lyrics (score >= 60), in tenths
Threshold == 600
\* the early-exit threshold (best_score > 80), in tenths
HighConfidence == 800
MAX_PARALLEL == 5
CONCURRENCY_LIMIT == 3
\* Aggregator.fetch_lyric: attempts, and the timeout of one attempt in seconds
max_retries == 3
FetchTimeout == 10
\* LyricsCleaner.clean: the head window, the tail window (total_lines - 12)
\* and the zero-time threshold (line.st <= 0.5) in tenths of a second
HEAD_LIMIT == 12
TAIL_WINDOW == 12
ZeroTime == 5
\* clean_header_metadata: scan_limit = min(len(lyrics_lines), 5)
ScanLimit == 5
\* QrcParser._apply_translations: tolerance=0.5, in tenths of a second
tolerance == 5

\* Aggregator.providers in registration order, for ENABLE_KUGOU switched off
Providers == <<"QQ Music", "Netease">>

\* str.lower() on the provider names
Lower(p) ==
    CASE p = "QQ Music" -> "qq music"
      [] p = "Kugou" -> "kugou"
      [] p = "Netease" -> "netease"
      [] OTHER -> p

IsSyllableProvider(p) == Lower(p) \in {"qq music", "kugou", "qq", "kugou music"}

NoCall == [stage |-> "none", hung |-> FALSE]

\* (title_score, artist_score) pairs of fuzz.ratio / fuzz.token_set_ratio
ScorePairs == {<<50, 50>>, <<80, 80>>, <<85, 75>>}

\* the SearchResult records provider number p can return (title and artist
\* are kept as their similarity to the query that was searched)
SearchResult(p) ==
    {[provider |-> Providers[p], id |-> i, ts |-> sp[1], as |-> sp[2]] :
        i \in 1..MaxId, sp \in ScorePairs}

-----------------------------------------------------------------------------
(* Query expansion                                                         *)

\* all(ord(c) < 128 ...) over artist and title
IsAscii == metadata.ascii

\* the artist of a strategy's query: "none" (empty), "single" or "multi"
\* (contains one of the separators of _simplify_artist). A translated artist
\* keeps the class of the original.
StrategyArtist(kind) ==
    CASE kind = "simple" -> "single"
      [] kind = "title" -> "none"
      [] OTHER -> metadata.artist

\* Strategies B, C, D appended to the queue q
AppendBCD(q) ==
    LET b == Append(q, "orig")
        c == IF metadata.artist = "multi" THEN Append(b, "simple") ELSE b
    IN  IF metadata.has_title THEN Append(c, "title") ELSE c

\* the text handed to the translation stage is empty
EmptyText(stage) ==
    CASE stage \in {"ja_artist", "zh_artist"} -> metadata.artist = "none"
      [] OTHER -> ~metadata.has_title

-----------------------------------------------------------------------------
(* Aggregator.search_all and Aggregator._execute_search                    *)

\* number of _execute_search tasks search_all fires for a strategy
NSub(kind) == IF StrategyArtist(kind) = "multi" THEN 2 ELSE 1

\* the provider searches of one search_all call: <<sub-search, provider index>>
Calls(kind) == (1..NSub(kind)) \X (1..Len(Providers))

\* what provider number p can answer: at most MaxRes results of its own
Responses(p) ==
    UNION {[1..n -> SearchResult(p)] : n \in 0..MaxRes}

\* the query one _execute_search of search_all sends to every provider:
\* sub-search 1 carries the strategy's own metadata, sub-search 2 the same
\* metadata with the artist simplified.  Titles and artists are named by the
\* way they were made; an absent artist is the empty text.
QueryOf(kind, sub) ==
    LET title == IF ~metadata.has_title THEN ""
                 ELSE IF kind \in {"romaji", "zh"} THEN kind ELSE "orig"
        own == CASE StrategyArtist(kind) = "none" -> ""
                 [] kind = "simple" -> "simplified orig"
                 [] OTHER -> kind
    IN  [title |-> title,
         artist |-> IF sub = 1 THEN own
                    ELSE IF kind = "orig" THEN "simplified orig"
                    ELSE "simplified " \o kind]

\* the query of a strategy of the queue: the metadata handed to search_all
StrategyQuery(kind) == QueryOf(kind, 1)

\* the results of the providers in ps for sub-search sub, in the order
\* in which they arrived
RECURSIVE ByArrival(_, _, _)
ByArrival(rl, sub, ps) ==
    IF ps = {} THEN <<>>
    ELSE LET q == CHOOSE x \in ps :
                     \A y \in ps : rl[<<sub, x>>].at <= rl[<<sub, y>>].at
         IN  rl[<<sub, q>>].result \o ByArrival(rl, sub, ps \ {q})

\* a merge that takes the responses as they complete
ExtendAllAsCompleted(rl, sub, p) == ByArrival(rl, sub, p..Len(Providers))

RECURSIVE ExtendAllUntilFailure(_, _, _)
\* a merge that gives up at the first provider that did not answer
ExtendAllUntilFailure(rl, sub, p) ==
    IF p > Len(Providers) THEN <<>>
    ELSE IF rl[<<sub, p>>].how # "returned" THEN <<>>
    ELSE rl[<<sub, p>>].result \o ExtendAllUntilFailure(rl, sub, p + 1)

RECURSIVE ExtendAll(_, _, _)
\* _execute_search: all_results.extend(result) over results_list in provider order
ExtendAll(rl, sub, p) ==
    IF p > Len(Providers) THEN <<>>
    ELSE rl[<<sub, p>>].result \o ExtendAll(rl, sub, p + 1)

UniqueKey(res) == <<res.provider, res.id>>

RECURSIVE DedupInto(_, _)
\* search_all: append each result whose unique_key was not seen yet
DedupInto(final, rest) ==
    IF rest = <<>> THEN final
    ELSE LET res == Head(rest)
             seen == {UniqueKey(final[i]) : i \in 1..Len(final)}
         IN  DedupInto(IF UniqueKey(res) \in seen THEN final
                       ELSE Append(final, res), Tail(rest))

\* the list search_all returns for a strategy, given the provider responses
SearchAllResult(kind, rl) ==
    DedupInto(<<>>, IF NSub(kind) = 2
                    THEN ExtendAll(rl, 1, 1) \o ExtendAll(rl, 2, 1)
                    ELSE ExtendAll(rl, 1, 1))

-----------------------------------------------------------------------------
(* Scoring, filtering and ranking in match_best_lyrics                     *)

\* score of a result against the strategy's own query, in tenths
Score(kind, res) ==
    IF StrategyArtist(kind) = "none" THEN 10 * res.ts
    ELSE 6 * res.ts + 4 * res.as

RECURSIVE CurrentBatch(_, _)
\* the entries of one strategy's results with score >= 60
CurrentBatch(kind, results) ==
    IF results = <<>> THEN <<>>
    ELSE LET res == Head(results)
             entry == [is_syllable |-> IsSyllableProvider(res.provider),
                       score |-> Score(kind, res),
                       provider |-> res.provider, id |-> res.id]
         IN  (IF entry.score >= Threshold THEN <<entry>> ELSE <<>>)
             \o CurrentBatch(kind, Tail(results))

RECURSIVE MaxScore(_)
MaxScore(batch) ==
    IF batch = <<>> THEN 0
    ELSE LET m == MaxScore(Tail(batch))
         IN  IF Head(batch).score > m THEN Head(batch).score ELSE m

\* a variant of the early-exit test that also stops at exactly 80
EarlyExitAtThreshold(batch) == MaxScore(batch) >= HighConfidence

\* best_score > 80
EarlyExit(batch) == MaxScore(batch) > HighConfidence

\* the key (is_syllable, score) of a is greater than that of b
KeyGreater(a, b) ==
    \/ a.is_syllable /\ ~b.is_syllable
    \/ a.is_syllable = b.is_syllable /\ a.score > b.score

RECURSIVE InsertDesc(_, _)
\* x placed behind every element whose key is not smaller (stable)
InsertDesc(x, s) ==
    IF s = <<>> THEN <<x>>
    ELSE IF KeyGreater(x, Head(s)) THEN <<x>> \o s
    ELSE <<Head(s)>> \o InsertDesc(x, Tail(s))

RECURSIVE SortDesc(_, _)
\* candidates.sort(key=(is_syllable, score), reverse=True), a stable sort
SortDesc(done, rest) ==
    IF rest = <<>> THEN done
    ELSE SortDesc(InsertDesc(Head(rest), done), Tail(rest))

SortCandidates(c) == SortDesc(<<>>, c)

-----------------------------------------------------------------------------
(* match_best_lyrics, search phase: the actions                            *)

SearchInit ==
    /\ metadata \in [artist : {"none", "single", "multi"},
                     has_title : BOOLEAN, ascii : BOOLEAN]
    /\ has_translator \in BOOLEAN
    /\ pc = "start"
    /\ call = NoCall
    /\ romaji_changed = FALSE
    /\ zh_changed = FALSE
    /\ search_queue = <<>>
    /\ qi = 1
    /\ results_list = <<>>
    /\ candidates = <<>>
    /\ searched = <<>>
    /\ batch_best = <<>>
    /\ returned = "running"

\* the first EN->ZH translation at or after `stage` that _translate_text
\* really sends out (it returns an empty text unchanged, without a call)
NextZhStage(stage) ==
    IF stage = "zh_artist" /\ ~EmptyText("zh_artist") THEN "zh_artist"
    ELSE IF stage \in {"zh_artist", "zh_title"} /\ ~EmptyText("zh_title")
         THEN "zh_title"
    ELSE "none"

\* Strategy E with the queue q built so far: issue the next translation, or
\* close the queue and enter the strategy loop
StrategyE(q, stage, changed) ==
    IF NextZhStage(stage) # "none"
    THEN /\ \E h \in BOOLEAN : call' = [stage |-> NextZhStage(stage), hung |-> h]
         /\ search_queue' = q
         /\ pc' = "translate"
    ELSE /\ call' = NoCall
         /\ search_queue' = IF changed THEN Append(q, "zh") ELSE q
         /\ pc' = "search"

\* lines 521-546: entry of match_best_lyrics up to its first external call
Start ==
    /\ pc = "start"
    /\ IF has_translator /\ IsAscii
       THEN \* _detect_and_translate_romaji calls the translator
            /\ \E h \in BOOLEAN : call' = [stage |-> "ja_artist", hung |-> h]
            /\ pc' = "translate"
            /\ search_queue' = search_queue
       ELSE \* no Romaji strategy and no EN->ZH strategy
            /\ call' = NoCall
            /\ search_queue' = AppendBCD(<<>>)
            /\ pc' = "search"
    /\ UNCHANGED <<metadata, has_translator, romaji_changed, zh_changed, qi,
                   results_list, candidates, searched, batch_best, returned>>

\* GoogleTranslator(...).translate(...) returns; `changed`: the text differs
TranslateReturns(changed) ==
    /\ pc = "translate"
    /\ call # NoCall
    /\ ~call.hung
    /\ CASE call.stage = "ja_artist" ->
              /\ romaji_changed' = changed
              /\ \E h \in BOOLEAN : call' = [stage |-> "ja_title", hung |-> h]
              /\ UNCHANGED <<pc, search_queue, zh_changed>>
         [] call.stage = "ja_title" ->
              /\ romaji_changed' = (romaji_changed \/ changed)
              /\ StrategyE(AppendBCD(IF romaji_changed \/ changed
                                     THEN <<"romaji">> ELSE <<>>),
                           "zh_artist", FALSE)
              /\ UNCHANGED zh_changed
         [] call.stage = "zh_artist" ->
              /\ zh_changed' = changed
              /\ StrategyE(search_queue, "zh_title", changed)
              /\ UNCHANGED romaji_changed
         [] call.stage = "zh_title" ->
              /\ zh_changed' = (zh_changed \/ changed)
              /\ StrategyE(search_queue, "none", zh_changed \/ changed)
              /\ UNCHANGED romaji_changed
    /\ UNCHANGED <<metadata, has_translator, qi, results_list, candidates,
                   searched, batch_best, returned>>

\* the translator raises: _detect_and_translate_romaji returns None,
\* _translate_text returns its input
TranslateRaises ==
    /\ pc = "translate"
    /\ call # NoCall
    /\ ~call.hung
    /\ CASE call.stage \in {"ja_artist", "ja_title"} ->
              /\ romaji_changed' = FALSE
              /\ StrategyE(AppendBCD(<<>>), "zh_artist", FALSE)
              /\ UNCHANGED zh_changed
         [] call.stage = "zh_artist" ->
              /\ StrategyE(search_queue, "zh_title", FALSE)
              /\ UNCHANGED <<romaji_changed, zh_changed>>
         [] call.stage = "zh_title" ->
              /\ StrategyE(search_queue, "none", zh_changed)
              /\ UNCHANGED <<romaji_changed, zh_changed>>
    /\ UNCHANGED <<metadata, has_translator, qi, results_list, candidates,
                   searched, batch_best, returned>>

\* line 561 and Aggregator.search_all: the provider searches of the strategy
\* at qi are fired, each under asyncio.wait_for(..., 15 s)
IssueSearch ==
    /\ pc = "search"
    /\ qi <= Len(search_queue)
    /\ results_list' = [c \in Calls(search_queue[qi]) |->
                            [status |-> "pending", result |-> <<>>]]
    /\ searched' = Append(searched, search_queue[qi])
    /\ pc' = "searching"
    /\ UNCHANGED <<metadata, has_translator, call, romaji_changed, zh_changed,
                   search_queue, qi, candidates, batch_best, returned>>

Pending(c) ==
    /\ pc = "searching"
    /\ c \in DOMAIN results_list
    /\ results_list[c].status = "pending"

SearchFrame ==
    UNCHANGED <<metadata, has_translator, pc, call, romaji_changed, zh_changed,
                search_queue, qi, candidates, searched, batch_best, returned>>

\* number of non-empty responses received in the current search_all
NonEmpty(rl) == Cardinality({c \in DOMAIN rl : rl[c].result # <<>>})

\* provider.search returns within the timeout
ProviderResponds(c, resp) ==
    /\ Pending(c)
    /\ resp = <<>> \/ Len(candidates) + NonEmpty(results_list) < MaxCand
    /\ results_list' = [results_list EXCEPT
                            ![c] = [status |-> "done", result |-> resp]]
    /\ SearchFrame

\* provider.search raises: search_with_timeout returns []
ProviderRaises(c) ==
    /\ Pending(c)
    /\ results_list' = [results_list EXCEPT
                            ![c] = [status |-> "done", result |-> <<>>]]
    /\ SearchFrame

\* asyncio.TimeoutError after 15 s: search_with_timeout returns []
ProviderTimesOut(c) ==
    /\ Pending(c)
    /\ results_list' = [results_list EXCEPT
                            ![c] = [status |-> "done", result |-> <<>>]]
    /\ SearchFrame

\* lines 563-600: search_all returned; score, filter, extend, early exit
ScoreBatch ==
    /\ pc = "searching"
    /\ \A c \in DOMAIN results_list : results_list[c].status = "done"
    /\ LET kind == search_queue[qi]
           results == SearchAllResult(kind, results_list)
           current_batch == CurrentBatch(kind, results)
       IN  /\ candidates' = candidates \o current_batch
           /\ batch_best' = Append(batch_best, MaxScore(current_batch))
           /\ IF current_batch # <<>> /\ EarlyExit(current_batch)
              THEN pc' = "rank"
              ELSE IF qi < Len(search_queue) THEN pc' = "search"
              ELSE pc' = "rank"
           /\ qi' = IF current_batch # <<>> /\ EarlyExit(current_batch)
                    THEN qi ELSE qi + 1
    /\ results_list' = <<>>
    /\ UNCHANGED <<metadata, has_translator, call, romaji_changed, zh_changed,
                   search_queue, searched, returned>>

\* lines 602-617: return None without candidates, else sort them
Rank ==
    /\ pc = "rank"
    /\ pc' = "done"
    /\ IF candidates = <<>>
       THEN /\ returned' = "None"
            /\ UNCHANGED candidates
       ELSE /\ returned' = "fetch"
            /\ candidates' = SortCandidates(candidates)
    /\ UNCHANGED <<metadata, has_translator, call, romaji_changed, zh_changed,
                   search_queue, qi, results_list, searched, batch_best>>

FetchIdle ==
    /\ f_pc = "idle"
    /\ f_style = FALSE
    /\ scored_candidates = <<>>
    /\ task = <<>>
    /\ lyrics_data = <<>>
    /\ semaphore = CONCURRENCY_LIMIT
    /\ cache = <<>>
    /\ cache_ops = {}
    /\ gsl_calls = <<>>
    /\ caught = FALSE
    /\ f_result = -1

-----------------------------------------------------------------------------
(* match_best_lyrics, fetch phase                                          *)

\* A LyricsData is kept as [n: number of lines, kw: the joined lower-cased
\* text holds one of the instrumental keywords]; NoLyrics is Python's None.
NoLyrics == [n |-> -1, kw |-> FALSE]
\* an exception in place of a value
Raised == [n |-> -2, kw |-> FALSE]
EmptyLyrics == [n |-> 0, kw |-> FALSE]
InstrumentalLyrics == [n |-> 1, kw |-> TRUE]
VocalLyrics == [n |-> 3, kw |-> FALSE]
\* the results get_standardized_lyrics can build from a payload
ParsedLyrics == {EmptyLyrics, InstrumentalLyrics, VocalLyrics}

\* LyricsService._is_instrumental
IsInstrumental(lyrics) ==
    IF lyrics.n = 0 THEN TRUE
    ELSE IF lyrics.n <= 2 /\ lyrics.kw THEN TRUE
    ELSE FALSE

\* scored_candidates[:MAX_PARALLEL] without its slice
AllCandidates(c) == c

\* top_candidates = scored_candidates[:MAX_PARALLEL]
TopCandidates(c) == SubSeq(c, 1, IF Len(c) < MAX_PARALLEL THEN Len(c) ELSE MAX_PARALLEL)

\* fetch_one without its try/except: the exception leaves the task
FetchOneUnguarded(outcome) == outcome

\* fetch_one: what the task returns for what get_standardized_lyrics did
\* (Raised: it raised; the except branch returns (candidate_data, None))
FetchOne(outcome) == IF outcome = Raised THEN NoLyrics ELSE outcome

RECURSIVE InsertByScore(_, _, _)
\* index x placed behind every index whose score is not smaller (stable)
InsertByScore(x, s, cands) ==
    IF s = <<>> THEN <<x>>
    ELSE IF cands[x].score > cands[Head(s)].score THEN <<x>> \o s
    ELSE <<Head(s)>> \o InsertByScore(x, Tail(s), cands)

RECURSIVE SortedByScore(_, _, _)
\* sorted(fetch_results, key=score, reverse=True), as indices into the top
\* candidates
SortedByScore(done, i, cands) ==
    IF i > Len(cands) THEN done
    ELSE SortedByScore(InsertByScore(i, done, cands), i + 1, cands)

RECURSIVE FirstVocal(_, _)
\* the loop of lines 651-665 up to its break: the first index in `order`
\* with a result that is not instrumental, 0 if there is none
FirstVocal(order, data) ==
    IF order = <<>> THEN 0
    ELSE IF data[Head(order)] # NoLyrics /\ ~IsInstrumental(data[Head(order)])
         THEN Head(order)
    ELSE FirstVocal(Tail(order), data)

RECURSIVE FirstInstrumental(_, _)
\* best_instrumental_candidate: the first instrumental result in `order`
FirstInstrumental(order, data) ==
    IF order = <<>> THEN 0
    ELSE IF data[Head(order)] # NoLyrics /\ IsInstrumental(data[Head(order)])
         THEN Head(order)
    ELSE FirstInstrumental(Tail(order), data)

\* a selection that takes the best-scored result whatever its kind
SelectAny(cands, data) ==
    LET order == SortedByScore(<<>>, 1, cands)
        RECURSIVE First(_)
        First(o) == IF o = <<>> THEN 0
                    ELSE IF data[Head(o)] # NoLyrics THEN Head(o)
                    ELSE First(Tail(o))
    IN  First(order)

\* lines 645-674: the index of the top candidate whose result is returned,
\* 0 for None
Select(cands, data) ==
    LET order == SortedByScore(<<>>, 1, cands)
        best_lyric_candidate == FirstVocal(order, data)
        best_instrumental_candidate == FirstInstrumental(order, data)
    IN  IF best_lyric_candidate # 0 THEN best_lyric_candidate
        ELSE best_instrumental_candidate

\* the cache key of StorageService._get_filename
CacheKey(cand) == <<Lower(cand.provider), cand.id>>

\* the candidates the search phase can hand over: provider and score
CandidateKinds ==
    {[provider |-> "QQ Music", score |-> 650],
     [provider |-> "Netease", score |-> 950],
     [provider |-> "Netease", score |-> 650]}

\* candidate entries for a list of kinds, song ids in list order
Entries(kinds) ==
    [i \in 1..Len(kinds) |->
        [is_syllable |-> IsSyllableProvider(kinds[i].provider),
         score |-> kinds[i].score,
         provider |-> kinds[i].provider, id |-> i]]

FetchInit ==
    /\ f_pc = "fetch"
    /\ f_style \in BOOLEAN
    /\ \E n \in 1..MaxFetchCands : \E kinds \in [1..n -> CandidateKinds] :
          \* the order lines 607-610 leave: sorted by (is_syllable, score)
          /\ Entries(kinds) = SortCandidates(Entries(kinds))
          /\ scored_candidates = Entries(kinds)
    /\ task = [i \in 1..Len(TopCandidates(scored_candidates)) |-> "waiting"]
    /\ lyrics_data = [i \in 1..Len(TopCandidates(scored_candidates)) |-> NoLyrics]
    /\ semaphore = CONCURRENCY_LIMIT
    /\ \/ cache = [k \in {} |-> NoLyrics]
       \/ cache = [k \in {CacheKey(scored_candidates[1])} |-> VocalLyrics]
    /\ cache_ops = {}
    /\ gsl_calls = [i \in 1..Len(scored_candidates) |-> 0]
    /\ caught = FALSE
    /\ f_result = -1

SearchIdle ==
    /\ metadata = [artist |-> "none", has_title |-> FALSE, ascii |-> FALSE]
    /\ has_translator = FALSE
    /\ pc = "idle"
    /\ call = NoCall
    /\ romaji_changed = FALSE
    /\ zh_changed = FALSE
    /\ search_queue = <<>>
    /\ qi = 1
    /\ results_list = <<>>
    /\ candidates = <<>>
    /\ searched = <<>>
    /\ batch_best = <<>>
    /\ returned = "running"

\* a semaphore that never blocks
SemaphoreAlwaysFree == TRUE

\* the semaphore lets the task in
SemaphoreFree == semaphore > 0

\* the task leaves `async with semaphore` with the value fetch_one returns
Finish(i, outcome) ==
    /\ task' = [task EXCEPT ![i] = "done"]
    /\ lyrics_data' = [lyrics_data EXCEPT ![i] = FetchOne(outcome)]
    /\ caught' = (caught \/ outcome = Raised)

\* lines 623-636 and 263-286: task i enters the semaphore and calls
\* get_standardized_lyrics, which loads the cache and, on a miss, starts the
\* download; tasks start in the order asyncio.gather created them
StartFetch(i) ==
    /\ f_pc = "fetch"
    /\ task[i] = "waiting"
    /\ \A j \in 1..(i - 1) : task[j] # "waiting"
    /\ SemaphoreFree
    /\ cache_ops' = cache_ops \cup {"load"}
    /\ gsl_calls' = [gsl_calls EXCEPT ![i] = @ + 1]
    /\ LET key == CacheKey(scored_candidates[i])
       IN  IF key \in DOMAIN cache
           THEN IF f_style
                THEN \* await ai_service.enrich_lyrics(cached_data, ...)
                     /\ task' = [task EXCEPT ![i] = "enrich"]
                     /\ semaphore' = semaphore - 1
                     /\ UNCHANGED <<lyrics_data, caught>>
                ELSE \* return cached_data: the semaphore is taken and
                     \* released without a suspension
                     /\ Finish(i, cache[key])
                     /\ UNCHANGED semaphore
           ELSE /\ task' = [task EXCEPT ![i] = "download"]
                /\ semaphore' = semaphore - 1
                /\ UNCHANGED <<lyrics_data, caught>>
    /\ UNCHANGED <<f_pc, f_style, scored_candidates, cache, f_result>>

\* the restyled cached result comes back
EnrichReturns(i) ==
    /\ f_pc = "fetch"
    /\ task[i] = "enrich"
    /\ Finish(i, cache[CacheKey(scored_candidates[i])])
    /\ semaphore' = semaphore + 1
    /\ UNCHANGED <<f_pc, f_style, scored_candidates, cache, cache_ops,
                   gsl_calls, f_result>>

\* get_standardized_lyrics returns None: the download gave nothing, the
\* payload could not be decrypted, or no parser found a line
GslReturnsNone(i) ==
    /\ f_pc = "fetch"
    /\ task[i] = "download"
    /\ Finish(i, NoLyrics)
    /\ semaphore' = semaphore + 1
    /\ UNCHANGED <<f_pc, f_style, scored_candidates, cache, cache_ops,
                   gsl_calls, f_result>>

\* get_standardized_lyrics builds a result: cleaned, saved unless the request
\* carries a style instruction, returned
GslReturnsLyrics(i, lyrics) ==
    /\ f_pc = "fetch"
    /\ task[i] = "download"
    /\ Finish(i, lyrics)
    /\ semaphore' = semaphore + 1
    /\ IF ~f_style
       THEN /\ cache_ops' = cache_ops \cup {"save"}
            /\ cache' = [k \in DOMAIN cache \cup {CacheKey(scored_candidates[i])} |->
                            IF k = CacheKey(scored_candidates[i]) THEN lyrics
                            ELSE cache[k]]
       ELSE UNCHANGED <<cache, cache_ops>>
    /\ UNCHANGED <<f_pc, f_style, scored_candidates, gsl_calls, f_result>>

\* an exception other than DecryptionError / ParsingError leaves
\* get_standardized_lyrics (the parse step catches ParsingError only)
GslRaises(i) ==
    /\ f_pc = "fetch"
    /\ task[i] \in {"download", "enrich"}
    /\ Finish(i, Raised)
    /\ semaphore' = semaphore + 1
    /\ UNCHANGED <<f_pc, f_style, scored_candidates, cache, cache_ops,
                   gsl_calls, f_result>>

\* asyncio.gather returned: lines 645-674. -2 stands for an exception that
\* left a task and so leaves match_best_lyrics
SelectBest ==
    /\ f_pc = "fetch"
    /\ \A i \in DOMAIN task : task[i] = "done"
    /\ f_pc' = "done"
    /\ f_result' = IF \E i \in DOMAIN lyrics_data : lyrics_data[i] = Raised
                   THEN -2
                   ELSE Select(TopCandidates(scored_candidates), lyrics_data)
    /\ UNCHANGED <<f_style, scored_candidates, task, lyrics_data, semaphore,
                   cache, cache_ops, gsl_calls, caught>>

-----------------------------------------------------------------------------
(* Aggregator.fetch_lyric                                                  *)

\* what provider.get_lyric_content can return: bytes, the dict of QQ Music
\* ({content, trans}), or the empty bytes a provider returns on its own errors
Payloads == {"bytes", "dict", "empty"}

\* how the HTTP request of QQMusicProvider.get_lyric_content can end: a
\* response with the lyric hex, a response without it, a response whose hex
\* is not hex, an error status (raise_for_status), a transport error
\* (httpx.ConnectError, httpx.ReadError, ...: all of them httpx.HTTPError)
HttpOutcomes ==
    {"content", "no content", "bad hex", "status error", "transport error"}

\* QQMusicProvider.get_lyric_content, by the end of its request: the dict
\* of content and translation, or b"" from each of its own except clauses
\* and from the missing content
QQGetLyricContent(http) ==
    CASE http = "content" -> "dict"
      [] http = "no content" -> "empty"
      [] http = "bad hex" -> "empty"
      [] http = "status error" -> "empty"
      [] http = "transport error" -> "empty"

\* the provider in use is not QQ Music
OtherProvider == <<>>

\* the network during one call: for QQ Music the end of the request of each
\* attempt, should the attempt be made and end within the timeout
NetPlans == {OtherProvider} \cup [1..max_retries -> HttpOutcomes]

RetryInit ==
    /\ r_pc = "lookup"
    /\ provider_found \in BOOLEAN
    /\ attempt = 0
    /\ r_clock = 0
    /\ r_sleeps = 0
    /\ r_log = <<>>
    /\ r_net \in NetPlans
    /\ ~provider_found => r_net = OtherProvider
    /\ r_result = "running"

RetryIdle ==
    /\ r_pc = "idle"
    /\ provider_found = FALSE
    /\ attempt = 0
    /\ r_clock = 0
    /\ r_sleeps = 0
    /\ r_log = <<>>
    /\ r_net = OtherProvider
    /\ r_result = "running"

\* a backoff after every failed attempt, the last one included
BackoffAlways(a) == TRUE

\* if attempt < max_retries - 1: await asyncio.sleep(0.5)
BackoffDue(a) == a < max_retries - 1

\* lines 135-147: the provider is looked up; the first attempt starts
Lookup ==
    /\ r_pc = "lookup"
    /\ IF provider_found
       THEN /\ r_pc' = "attempt"
            /\ UNCHANGED r_result
       ELSE /\ r_pc' = "done"
            /\ r_result' = "None"
    /\ UNCHANGED <<provider_found, attempt, r_clock, r_sleeps, r_log, r_net>>

\* a second passes while the attempt waits for the provider
Tick ==
    /\ r_pc = "attempt"
    /\ r_clock < FetchTimeout
    /\ r_clock' = r_clock + 1
    /\ UNCHANGED <<r_pc, provider_found, attempt, r_sleeps, r_log, r_net,
                   r_result>>

\* the next iteration of the for loop, or `return None` behind it
NextIteration ==
    IF attempt + 1 < max_retries
    THEN /\ attempt' = attempt + 1
         /\ r_clock' = 0
         /\ r_pc' = "attempt"
         /\ UNCHANGED r_result
    ELSE /\ r_pc' = "done"
         /\ r_result' = "None"
         /\ UNCHANGED <<attempt, r_clock>>

\* an except branch ran: lines 148-157
Failed(how) ==
    /\ r_log' = Append(r_log, how)
    /\ IF BackoffDue(attempt)
       THEN /\ r_pc' = "backoff"
            /\ r_sleeps' = r_sleeps + 1
            /\ UNCHANGED <<attempt, r_clock, r_result>>
       ELSE /\ NextIteration
            /\ UNCHANGED r_sleeps
    /\ UNCHANGED <<provider_found, r_net>>

\* get_lyric_content returns before the timeout: fetch_lyric returns it
AttemptReturns(payload) ==
    /\ r_pc = "attempt"
    /\ r_net = OtherProvider
    /\ r_clock < FetchTimeout
    /\ r_log' = Append(r_log, "ok")
    /\ r_result' = payload
    /\ r_pc' = "done"
    /\ UNCHANGED <<provider_found, attempt, r_clock, r_sleeps, r_net>>

\* QQ Music: the request of this attempt ends before the timeout;
\* get_lyric_content returns and so does fetch_lyric
QQAttemptEnds ==
    /\ r_pc = "attempt"
    /\ r_net # OtherProvider
    /\ r_clock < FetchTimeout
    /\ r_log' = Append(r_log, "ok")
    /\ r_result' = QQGetLyricContent(r_net[attempt + 1])
    /\ r_pc' = "done"
    /\ UNCHANGED <<provider_found, attempt, r_clock, r_sleeps, r_net>>

\* get_lyric_content raises before the timeout
AttemptRaises ==
    /\ r_pc = "attempt"
    /\ r_net = OtherProvider
    /\ r_clock < FetchTimeout
    /\ Failed("error")

\* asyncio.wait_for cancels the attempt after 10 s
AttemptTimesOut ==
    /\ r_pc = "attempt"
    /\ r_clock = FetchTimeout
    /\ Failed("timeout")

\* asyncio.sleep(0.5) is over
BackoffEnds ==
    /\ r_pc = "backoff"
    /\ NextIteration
    /\ UNCHANGED <<provider_found, r_sleeps, r_log, r_net>>

-----------------------------------------------------------------------------
(* LyricsCleaner.clean (CleanSpec)                                         *)
(*                                                                         *)
(* A Line is [id, st, txt, trans]: id stands for the identity of the Line  *)
(* object (its position in the input, from 1), st is the start time in     *)
(* tenths of a second, trans is "" for None.  Texts are representatives    *)
(* of the classes the patterns of cleaner.py distinguish; each predicate   *)
(* below holds the representatives its pattern matches.                    *)

Line(id, st, txt, trans) == [id |-> id, st |-> st, txt |-> txt, trans |-> trans]

\* line.txt.strip()
Strip(t) == IF t = " " THEN "" ELSE t

\* LRC_TAG_PATTERN.match(text)
IsLrcTag(text) == text \in {"[ti:Song]"}

\* METADATA_BRACKET_PATTERN.match(text)
IsMetadataBracket(text) == text \in {"[xxx:AAAAAAAAAAAAAAAAAAAAAAAA]"}

\* EMPTY_TIMESTAMP_PATTERN.match(text)
IsEmptyTimestamp(text) == text \in {"[00:01.00]"}

\* some pattern of METADATA_KEYS matches text
MatchesMetaKey(text) == text \in {"Title Track"}

\* some pattern of STRICT_PATTERNS matches text
MatchesStrict(text) ==
    text \in {"Lyricist : Fang", "Composer : Jay", "Composer: Jay Chou",
              "Mixed by Tom", "Love - SZA"}

\* re.search(r".+\s+-\s+.+", text)
IsTitleFormat(text) == text \in {"Love - SZA", "Night - we run away"}

is_hard_junk(text) == text \in {"QQMusic preview"}

is_credits_line(text) ==
    text \in {"Lyricist : Fang", "Composer : Jay", "Composer: Jay Chou"}

TAIL_START(total_lines) ==
    IF total_lines - TAIL_WINDOW > 0 THEN total_lines - TAIL_WINDOW ELSE 0

InWindowEverywhere(i, total_lines) == TRUE

\* the safe window of Rule 1; i is the zero-based index of the line
InWindow(i, total_lines) == i < HEAD_LIMIT \/ i >= TAIL_START(total_lines)

\* is_credit at the end of one iteration of the loop (non-empty text)
IsCredit(i, line, total_lines) ==
    LET text == Strip(line.txt) IN
    \/ IsLrcTag(text)
    \/ IsMetadataBracket(text)
    \/ IsEmptyTimestamp(text)
    \/ line.st <= ZeroTime /\ (MatchesMetaKey(text) \/ MatchesStrict(text))
    \/ InWindow(i, total_lines) /\ MatchesStrict(text)

\* the loop over lyrics.lines[1..k]: the lines appended to clean_lines
RECURSIVE CleanLines(_, _)
CleanLines(ls, k) ==
    IF k = 0 THEN <<>>
    ELSE LET rest == CleanLines(ls, k - 1) IN
         IF Strip(ls[k].txt) = "" THEN rest
         ELSE IF IsCredit(k - 1, ls[k], Len(ls)) THEN rest
         ELSE Append(rest, ls[k])

\* the loop over lyrics.lines[1..k]: the texts appended to credits
RECURSIVE Credits(_, _)
Credits(ls, k) ==
    IF k = 0 THEN <<>>
    ELSE LET rest == Credits(ls, k - 1) IN
         IF Strip(ls[k].txt) = "" THEN rest
         ELSE IF IsCredit(k - 1, ls[k], Len(ls))
              THEN Append(rest, Strip(ls[k].txt))
         ELSE rest

\* list.sort is stable: x goes behind every line whose st is not greater
RECURSIVE InsertByStart(_, _)
InsertByStart(sorted, x) ==
    IF sorted = <<>> THEN <<x>>
    ELSE IF sorted[Len(sorted)].st <= x.st THEN Append(sorted, x)
    ELSE Append(InsertByStart(SubSeq(sorted, 1, Len(sorted) - 1), x),
                sorted[Len(sorted)])

\* clean without the sort of line 181
Unsorted(ls, k) == ls

RECURSIVE SortByStart(_, _)
SortByStart(ls, k) ==
    IF k = 0 THEN <<>> ELSE InsertByStart(SortByStart(ls, k - 1), ls[k])

\* should_delete of one header line
ShouldDelete(line) ==
    LET text == Strip(line.txt)
        trans == line.trans
    IN  \/ IsTitleFormat(text) /\ (trans = "" \/ is_hard_junk(trans))
        \/ is_hard_junk(trans)
        \/ is_hard_junk(text)
        \/ is_credits_line(text)

RECURSIVE MatchingPrefix(_, _)
\* the number of leading lines from position i on that match, ScanLimit
\* at most
MatchingPrefix(lyrics_lines, i) ==
    IF i > Len(lyrics_lines) \/ i > ScanLimit THEN 0
    ELSE IF ShouldDelete(lyrics_lines[i])
         THEN 1 + MatchingPrefix(lyrics_lines, i + 1)
    ELSE 0

\* a scan that stops at the first line it keeps
StartIndexContiguous(lyrics_lines) == MatchingPrefix(lyrics_lines, 1)

\* start_index after the scan of the first scan_limit lines
StartIndex(lyrics_lines) ==
    LET scan_limit == IF Len(lyrics_lines) < ScanLimit
                      THEN Len(lyrics_lines) ELSE ScanLimit
        deleted == {i \in 1..scan_limit : ShouldDelete(lyrics_lines[i])}
    IN  IF deleted = {} THEN 0
        ELSE CHOOSE i \in deleted : \A j \in deleted : j <= i

clean_header_metadata(lyrics_lines) ==
    SubSeq(lyrics_lines, StartIndex(lyrics_lines) + 1, Len(lyrics_lines))

\* ---- the inputs ----

LyricText == "sparrows outside"
CreditText == "Lyricist : Fang"
SpecialTexts ==
    {"Composer: Jay Chou", "Mixed by Tom", "Love - SZA",
     "Night - we run away", "QQMusic preview", "Title Track", "[ti:Song]",
     "[xxx:AAAAAAAAAAAAAAAAAAAAAAAA]", "[00:01.00]", " "}
Translations == {"", "translation", "QQMusic preview"}

\* input lengths: none, one, the longest that lies in the head window, a
\* head and a tail window that overlap, and one that leaves lines outside
\* both windows
Lens == {0, 1, HEAD_LIMIT, HEAD_LIMIT + 1, MaxLines}
\* number of leading credit lines of an input
Heads == {0, ScanLimit - 1, HEAD_LIMIT}

\* line k of a song whose first h lines are credits: a line per second
BaseLine(k, h) ==
    IF k <= h THEN Line(k, 10 * k, CreditText, "")
    ELSE Line(k, 10 * k, LyricText, "")

\* the song, with line p (none when p = 0) replaced by a special line
Song(n, h, p, special) ==
    [k \in 1..n |-> IF k = p THEN special ELSE BaseLine(k, h)]

\* the dirty lyrics of scripts/test_cleaning.py
TestLines ==
    << Line(1, 0, "Lyricist : Fang", ""),
       Line(2, 10, "Composer : Jay", ""),
       Line(3, 30, "sparrows outside", ""),
       Line(4, 40, "Composer: Jay Chou", ""),
       Line(5, 50, "chattering on the wire", "") >>

\* start times of the special line at position p: zero, the zero-time
\* threshold, just above it, its own second, and the second of the line two
\* places before it (out of order, and equal to that line's start time)
StartTimes(p) ==
    {0, ZeroTime, ZeroTime + 1, 10 * p} \cup {10 * q : q \in {p - 2} \cap 1..p}

\* the inputs of the lengths in lens
CleanInputs(lens) ==
    {TestLines}
    \cup {Song(n, h, 0, <<>>) : n \in lens, h \in Heads}
    \cup UNION {
          UNION { { Song(n, h, p, Line(p, st, txt, trans)) :
                      st \in StartTimes(p),
                      txt \in SpecialTexts,
                      trans \in Translations } :
                  p \in 1..n, h \in {x \in Heads : x <= n} } :
          n \in lens }

CleanInit ==
    /\ c_pc = "ready"
    /\ c_input \in CleanInputs(Lens)
    /\ clean_lines = <<>>
    /\ credits = <<>>
    /\ lines = <<>>

CleanIdle ==
    /\ c_pc = "idle"
    /\ c_input = <<>>
    /\ clean_lines = <<>>
    /\ credits = <<>>
    /\ lines = <<>>

\* LyricsCleaner.clean(lyrics): the early return for no lines, else the
\* classification loop, the sort by st and the header-scope pass
Clean ==
    /\ c_pc = "ready"
    /\ c_pc' = "done"
    /\ IF c_input = <<>>
       THEN /\ clean_lines' = <<>>
            /\ credits' = <<>>
            /\ lines' = c_input
       ELSE /\ clean_lines' = CleanLines(c_input, Len(c_input))
            /\ credits' = Credits(c_input, Len(c_input))
            /\ lines' = clean_header_metadata(
                            SortByStart(clean_lines', Len(clean_lines')))
    /\ UNCHANGED c_input

\* LyricsCleaner.clean called on the object it returned: lyrics.lines is
\* cleaned once more and lyrics.credits is extended
CleanAgain ==
    /\ c_pc = "done"
    /\ c_pc' = "again"
    /\ c_input' = lines
    /\ IF lines = <<>>
       THEN UNCHANGED <<clean_lines, credits, lines>>
       ELSE /\ clean_lines' = CleanLines(lines, Len(lines))
            /\ credits' = credits \o Credits(lines, Len(lines))
            /\ lines' = clean_header_metadata(
                            SortByStart(clean_lines', Len(clean_lines')))

-----------------------------------------------------------------------------
(* QrcParser._apply_translations (TransSpec)                               *)
(*                                                                         *)
(* Times are in tenths of a second.  A line is [st, trans]; trans_map is   *)
(* the sequence of the dict's (time, text) items in iteration order, its   *)
(* times pairwise different.                                               *)
(*                                                                         *)
(* line.st and t_time are Python floats: the doubles nearest to the        *)
(* decimal times (ms / 1000.0, round(time_sec, 2)).  A computed diff is    *)
(* kept as <<d, e>>: d tenths of a second plus e units of 2^-56 / 10 s,    *)
(* the rounding the two doubles carry.  The subtraction of two doubles     *)
(* within a factor of two of each other is exact, so <<d, e>> is the exact *)
(* value of abs(line.st - t_time) for every pair that can be within the    *)
(* tolerance; for pairs further apart d alone decides every comparison.    *)

Abs(x) == IF x < 0 THEN -x ELSE x

\* float(x / 10) - x / 10 in units of 2^-56 / 10, for the times of the inputs
Rounding(x) ==
    CASE x = 0 -> 0
      [] x = 6 -> -16
      [] x = 11 -> 64
      [] x = 100 -> 0
      [] x = 101 -> -256
      [] x = 103 -> 512
      [] x = 106 -> -256
      [] x = 110 -> 0
      [] x = 111 -> -256

\* diff = abs(line.st - t_time)
FloatDiff(st, t_time) ==
    <<Abs(st - t_time),
      IF st >= t_time THEN Rounding(st) - Rounding(t_time)
      ELSE Rounding(t_time) - Rounding(st)>>

\* diff < min_diff
DiffLess(diff, min_diff) ==
    \/ diff[1] < min_diff[1]
    \/ diff[1] = min_diff[1] /\ diff[2] < min_diff[2]

\* diff <= tolerance (0.5 is a double: it carries no rounding)
WithinTolerance(diff) ==
    diff[1] < tolerance \/ (diff[1] = tolerance /\ diff[2] <= 0)

\* the inner loop over lines[1..k]: the index of best_line, 0 for None
RECURSIVE BestLine(_, _, _)
BestLine(ls, t_time, k) ==
    IF k = 0 THEN 0
    ELSE LET best == BestLine(ls, t_time, k - 1)
             diff == FloatDiff(ls[k].st, t_time)
         IN  IF /\ WithinTolerance(diff)
                \* min_diff is float('inf') while best_line is None
                /\ best = 0 \/ DiffLess(diff, FloatDiff(ls[best].st, t_time))
             THEN k
             ELSE best

\* the outer loop over the first j items of trans_map
RECURSIVE AssignTranslations(_, _, _)
AssignTranslations(ls, tm, j) ==
    IF j = 0 THEN ls
    ELSE LET sofar == AssignTranslations(ls, tm, j - 1)
             best_line == BestLine(sofar, tm[j].time, Len(sofar))
         IN  IF best_line = 0 THEN sofar
             ELSE [sofar EXCEPT ![best_line].trans = tm[j].text]

_apply_translations(ls, tm) ==
    IF tm = <<>> \/ ls = <<>> THEN ls
    ELSE AssignTranslations(ls, tm, Len(tm))

\* ---- the inputs ----

\* start times of lines: 0.6 s, 10.0 s, 10.3 s, 10.6 s
LineTimes == {6, 100, 103, 106}
\* times of translations: exactly 0.5 s after 0.6, nearest to 10.0, at equal
\* distance of 10.0 and 10.6, out of reach of 10.0 and 10.3, and exactly
\* 0.5 s after 10.6
TransTimes == {11, 101, 103, 110, 111}
TransTexts == {"tr1", "tr2"}

\* the lines as QrcParser.parse builds them: trans="" (Initial empty)
TransLines ==
    UNION {[1..n -> [st : LineTimes, trans : {""}]] : n \in 0..MaxTLines}

TransMaps ==
    {tm \in UNION {[1..n -> [time : TransTimes, text : TransTexts]] :
                       n \in 0..MaxTrans} :
        \A i, j \in 1..Len(tm) : i # j => tm[i].time # tm[j].time}

TransInit ==
    /\ a_pc = "ready"
    /\ a_input \in TransLines
    /\ a_lines = a_input
    /\ a_trans_map \in TransMaps

TransIdle ==
    /\ a_pc = "idle"
    /\ a_input = <<>>
    /\ a_lines = <<>>
    /\ a_trans_map = <<>>

\* QrcParser._apply_translations(lines, trans_map, tolerance=0.5)
ApplyTranslations ==
    /\ a_pc = "ready"
    /\ a_pc' = "done"
    /\ a_lines' = _apply_translations(a_lines, a_trans_map)
    /\ UNCHANGED <<a_input, a_trans_map>>

-----------------------------------------------------------------------------
(* QrcParser.parse (ParseSpec)                                             *)
(*                                                                         *)
(* The payload is kept as the segments re.findall cuts it into.  A segment *)
(* is [tag, start, dur, content]: tag is the kind of its bracket ("ms" for *)
(* [start_ms,duration_ms], "lrc" for [minutes:seconds], "meta" for a       *)
(* metadata tag, "none" for any other), start and dur are the tag's times  *)
(* in tenths of a second, content is what follows the bracket: "none"      *)
(* (blank), "text" (no word marker), "krc" (one <offset,dur,flag>text      *)
(* marker) or "qrc" (one text(offset,dur) marker).  A Line is              *)
(* [seg, st, et, txt, trans, words]; seg is the index of its segment.      *)

SegStarts == {100, 103}
SegDurs == {0, 20}
Contents == {"none", "text", "krc", "qrc"}

Segments ==
    [tag : {"ms"}, start : SegStarts, dur : SegDurs, content : Contents]
    \cup [tag : {"lrc"}, start : SegStarts, dur : {0}, content : Contents]
    \cup [tag : {"none"}, start : {0}, dur : {0}, content : Contents]
    \cup [tag : {"meta"}, start : {0}, dur : {0}, content : {"none"}]

\* line_st: the tag's start, 0.0 without a time tag
LineStart(seg) == IF seg.tag \in {"ms", "lrc"} THEN seg.start ELSE 0

LineEndIsStart(seg) == LineStart(seg)

\* line_et: start + duration for [start_ms,duration_ms], else line_st
LineEnd(seg) == IF seg.tag = "ms" THEN seg.start + seg.dur ELSE LineStart(seg)

\* the words of the segment: one word of 0.3 s, relative to the line start
\* for <0,300,0>text, absolute for text(10000,300)
Words(seg) ==
    CASE seg.content = "krc" ->
             <<[st |-> LineStart(seg), et |-> LineStart(seg) + 3]>>
      [] seg.content = "qrc" -> <<[st |-> 100, et |-> 103]>>
      [] OTHER -> <<>>

\* content_part.strip() is not empty: without a time tag content_part is
\* the whole segment, bracket included
HasText(seg) == seg.content # "none" \/ seg.tag = "none"

\* the loop over segments[1..k]
RECURSIVE ParseSegments(_, _)
ParseSegments(segs, k) ==
    IF k = 0 THEN <<>>
    ELSE LET rest == ParseSegments(segs, k - 1)
             seg == segs[k]
         IN  IF seg.tag = "meta" THEN rest
             ELSE IF Words(seg) # <<>> \/ HasText(seg)
                  THEN Append(rest, [seg |-> k,
                                     st |-> LineStart(seg),
                                     et |-> LineEnd(seg),
                                     txt |-> "la",
                                     trans |-> "",
                                     words |-> Words(seg)])
             ELSE rest

\* translation maps of the parsed payloads: none, or one entry at 10.1 s
ParseTransMaps == {<<>>, <<[time |-> 101, text |-> "tr1"]>>}

ParseInit ==
    /\ p_pc = "ready"
    /\ segments \in UNION {[1..n -> Segments] : n \in 0..MaxSegs}
    /\ p_trans_map \in ParseTransMaps
    /\ parsed_lines = <<>>

ParseIdle ==
    /\ p_pc = "idle"
    /\ segments = <<>>
    /\ p_trans_map = <<>>
    /\ parsed_lines = <<>>

\* QrcParser.parse: the lines of the segments, then the translations
Parse ==
    /\ p_pc = "ready"
    /\ p_pc' = "done"
    /\ parsed_lines' =
           _apply_translations(ParseSegments(segments, Len(segments)),
                               p_trans_map)
    /\ UNCHANGED <<segments, p_trans_map>>

-----------------------------------------------------------------------------
(* The ciphers (DecryptSpec)                                               *)
(*                                                                         *)
(* Bytes are naturals below 256, byte strings are sequences of bytes, a    *)
(* 32-bit word is the sequence of its 32 bits, most significant first.     *)
(* Tables hold the 0-based positions of the source.                        *)

\* the sequence f with every element evaluated
Eager(f) == f \o <<>>

\* the bits of a byte and back
ByteBits(x) == Eager([i \in 1..8 |-> (x \div 2^(8 - i)) % 2])

BitsByte(b) ==
    b[1] * 128 + b[2] * 64 + b[3] * 32 + b[4] * 16
    + b[5] * 8 + b[6] * 4 + b[7] * 2 + b[8]

\* Op(v) with v evaluated once
Bind(v, Op(_)) == CHOOSE r \in {Op(x) : x \in {v}} : TRUE

\* a ^ b on bit sequences
Xor(a, b) == Eager([i \in 1..Len(a) |-> (a[i] + b[i]) % 2])

\* a ^ b on bytes
XorByte(a, b) == BitsByte(Xor(ByteBits(a), ByteBits(b)))

\* the S-boxes of DESHelper

sbox1 == <<
    14,  4, 13,  1,  2, 15, 11,  8,  3, 10,  6, 12,  5,  9,  0,  7,
     0, 15,  7,  4, 14,  2, 13,  1, 10,  6, 12, 11,  9,  5,  3,  8,
     4,  1, 14,  8, 13,  6,  2, 11, 15, 12,  9,  7,  3, 10,  5,  0,
    15, 12,  8,  2,  4,  9,  1,  7,  5, 11,  3, 14, 10,  0,  6, 13 >>

sbox2 == <<
    15,  1,  8, 14,  6, 11,  3,  4,  9,  7,  2, 13, 12,  0,  5, 10,
     3, 13,  4,  7, 15,  2,  8, 15, 12,  0,  1, 10,  6,  9, 11,  5,
     0, 14,  7, 11, 10,  4, 13,  1,  5,  8, 12,  6,  9,  3,  2, 15,
    13,  8, 10,  1,  3, 15,  4,  2, 11,  6,  7, 12,  0,  5, 14,  9 >>

sbox3 == <<
    10,  0,  9, 14,  6,  3, 15,  5,  1, 13, 12,  7, 11,  4,  2,  8,
    13,  7,  0,  9,  3,  4,  6, 10,  2,  8,  5, 14, 12, 11, 15,  1,
    13,  6,  4,  9,  8, 15,  3,  0, 11,  1,  2, 12,  5, 10, 14,  7,
     1, 10, 13,  0,  6,  9,  8,  7,  4, 15, 14,  3, 11,  5,  2, 12 >>

sbox4 == <<
     7, 13, 14,  3,  0,  6,  9, 10,  1,  2,  8,  5, 11, 12,  4, 15,
    13,  8, 11,  5,  6, 15,  0,  3,  4,  7,  2, 12,  1, 10, 14,  9,
    10,  6,  9,  0, 12, 11,  7, 13, 15,  1,  3, 14,  5,  2,  8,  4,
     3, 15,  0,  6, 10, 10, 13,  8,  9,  4,  5, 11, 12,  7,  2, 14 >>

sbox5 == <<
     2, 12,  4,  1,  7, 10, 11,  6,  8,  5,  3, 15, 13,  0, 14,  9,
    14, 11,  2, 12,  4,  7, 13,  1,  5,  0, 15, 10,  3,  9,  8,  6,
     4,  2,  1, 11, 10, 13,  7,  8, 15,  9, 12,  5,  6,  3,  0, 14,
    11,  8, 12,  7,  1, 14,  2, 13,  6, 15,  0,  9, 10,  4,  5,  3 >>

sbox6 == <<
    12,  1, 10, 15,  9,  2,  6,  8,  0, 13,  3,  4, 14,  7,  5, 11,
    10, 15,  4,  2,  7, 12,  9,  5,  6,  1, 13, 14,  0, 11,  3,  8,
     9, 14, 15,  5,  2,  8, 12,  3,  7,  0,  4, 10,  1, 13, 11,  6,
     4,  3,  2, 12,  9,  5, 15, 10, 11, 14,  1,  7,  6,  0,  8, 13 >>

sbox7 == <<
     4, 11,  2, 14, 15,  0,  8, 13,  3, 12,  9,  7,  5, 10,  6,  1,
    13,  0, 11,  7,  4,  9,  1, 10, 14,  3,  5, 12,  2, 15,  8,  6,
     1,  4, 11, 13, 12,  3,  7, 14, 10, 15,  6,  8,  0,  5,  9,  2,
     6, 11, 13,  8,  1,  4, 10,  7,  9,  5,  0, 15, 14,  2,  3, 12 >>

sbox8 == <<
    13,  2,  8,  4,  6, 15, 11,  1, 10,  9,  3, 14,  5,  0, 12,  7,
     1, 15, 13,  8, 10,  3,  7,  4, 12,  5,  6, 11,  0, 14,  9,  2,
     7, 11,  4,  1,  9, 12, 14,  2,  0,  6, 10, 13, 15,  3,  5,  8,
     2,  1, 14,  7,  4, 10,  8, 13, 15, 12,  9,  0,  3,  5,  6, 11 >>
SBoxes == <<sbox1, sbox2, sbox3, sbox4, sbox5, sbox6, sbox7, sbox8>>

ENCRYPT == 1
DECRYPT == 0

\* the bit at position b of byte array a; the bytes of each 32-bit word
\* are read in reverse order
_BITNUM(a, b) ==
    (a[(b \div 32) * 4 + 3 - ((b % 32) \div 8) + 1] \div 2^(7 - (b % 8))) % 2

\* the index of an S-box entry for the six bits c
_SBOXBIT(c) == c[1] * 32 + c[6] * 16 + c[2] * 8 + c[3] * 4 + c[4] * 2 + c[5]

key_rnd_shift == <<1, 1, 2, 2, 2, 2, 2, 2, 1, 2, 2, 2, 2, 2, 2, 1>>

key_perm_c == <<
    56, 48, 40, 32, 24, 16,  8,  0, 57, 49, 41, 33, 25, 17,
     9,  1, 58, 50, 42, 34, 26, 18, 10,  2, 59, 51, 43, 35 >>

key_perm_d == <<
    62, 54, 46, 38, 30, 22, 14,  6, 61, 53, 45, 37, 29, 21,
    13,  5, 60, 52, 44, 36, 28, 20, 12,  4, 27, 19, 11,  3 >>

key_compression == <<
    13, 16, 10, 23,  0,  4,  2, 27, 14,  5, 20,  9,
    22, 18, 11,  3, 25,  7, 15,  6, 26, 19, 12,  1,
    40, 51, 30, 36, 46, 54, 29, 39, 50, 44, 32, 47,
    43, 48, 38, 55, 33, 52, 45, 41, 49, 35, 28, 31 >>

\* the offset KeySchedule subtracts from key_compression[j] to index D
D_OFFSET == 27

\* the offset of the DES standard
STANDARD_D_OFFSET == 28

\* ((w << n) | (w >> (28 - n))) & 0xfffffff0
RotateLeft(w, n) ==
    Eager([j \in 1..32 |-> IF j <= 28 THEN w[((j - 1 + n) % 28) + 1] ELSE 0])

\* C or D after the rotations of rounds 1..i
RECURSIVE Rotated(_, _)
Rotated(w, i) ==
    IF i = 0 THEN w ELSE RotateLeft(Rotated(w, i - 1), key_rnd_shift[i])

\* the round key generated from C and D
RoundKey(C, D, offset) ==
    Eager([j \in 1..48 |->
        IF j <= 24 THEN C[key_compression[j] + 1]
        ELSE D[key_compression[j] - offset + 1]])

\* the 16 round keys of an 8-byte key, each of 48 bits
KeyScheduleOf(key, mode, offset) ==
    Bind(Eager([j \in 1..32 |->
             IF j <= 28 THEN _BITNUM(key, key_perm_c[j]) ELSE 0]),
         LAMBDA C0 :
    Bind(Eager([j \in 1..32 |->
             IF j <= 28 THEN _BITNUM(key, key_perm_d[j]) ELSE 0]),
         LAMBDA D0 :
    Bind(Eager([i \in 1..16 |->
             RoundKey(Rotated(C0, i), Rotated(D0, i), offset)]),
         LAMBDA keys :
    Eager([toGen \in 1..16 |->
        keys[IF mode = DECRYPT THEN 17 - toGen ELSE toGen]]))))

KeySchedule(key, mode) == KeyScheduleOf(key, mode, D_OFFSET)

ip_state0 == <<
    57, 49, 41, 33, 25, 17,  9,  1, 59, 51, 43, 35, 27, 19, 11,  3,
    61, 53, 45, 37, 29, 21, 13,  5, 63, 55, 47, 39, 31, 23, 15,  7 >>

ip_state1 == <<
    56, 48, 40, 32, 24, 16,  8,  0, 58, 50, 42, 34, 26, 18, 10,  2,
    60, 52, 44, 36, 28, 20, 12,  4, 62, 54, 46, 38, 30, 22, 14,  6 >>

\* the initial permutation: the two 32-bit words of the state
IP(input_bytes) ==
    <<Eager([j \in 1..32 |-> _BITNUM(input_bytes, ip_state0[j])]),
      Eager([j \in 1..32 |-> _BITNUM(input_bytes, ip_state1[j])])>>

\* the final permutation: output_bytes[3], [2], [1], [0] take bits 7, 6, 5,
\* 4 of each byte of the words, output_bytes[7] .. [4] bits 3 .. 0
InvIP(state) ==
    Eager([idx \in 1..8 |->
        LET k == IF idx <= 4 THEN idx + 3 ELSE idx - 5
        IN  BitsByte(<<state[2][k + 1], state[1][k + 1],
                       state[2][k + 9], state[1][k + 9],
                       state[2][k + 17], state[1][k + 17],
                       state[2][k + 25], state[1][k + 25]>>)])

\* t1, t2: the 48 bits of lrgstate are these bits of state
Expansion == <<
    31,  0,  1,  2,  3,  4,  3,  4,  5,  6,  7,  8,
     7,  8,  9, 10, 11, 12, 11, 12, 13, 14, 15, 16,
    15, 16, 17, 18, 19, 20, 19, 20, 21, 22, 23, 24,
    23, 24, 25, 26, 27, 28, 27, 28, 29, 30, 31,  0 >>

\* the permutation that ends F
Permutation == <<
    15,  6, 19, 20, 28, 11, 27, 16,  0, 14, 22, 25,  4, 17, 30,  9,
     1,  7, 23, 13, 31, 26,  2,  8, 18, 12, 29,  5, 21, 10,  3, 24 >>

Nibble(v) == <<(v \div 8) % 2, (v \div 4) % 2, (v \div 2) % 2, v % 2>>

\* the round function on a 32-bit word and a 48-bit round key
F(state, key, boxes) ==
    Bind(Xor(Eager([j \in 1..48 |-> state[Expansion[j] + 1]]), key),
         LAMBDA lrgstate :
    Bind(Eager([i \in 1..8 |->
             Nibble(boxes[i][_SBOXBIT(Eager([m \in 1..6 |->
                                          lrgstate[(i - 1) * 6 + m]])) + 1])]),
         LAMBDA out :
    Eager([j \in 1..32 |->
        out[(Permutation[j] \div 4) + 1][(Permutation[j] % 4) + 1]])))

\* the state after rounds 1..idx of Crypt
RECURSIVE Rounds(_, _, _, _)
Rounds(state, key_schedule, boxes, idx) ==
    IF idx = 0 THEN state
    ELSE Bind(Rounds(state, key_schedule, boxes, idx - 1),
              LAMBDA s :
                  <<s[2], Xor(F(s[2], key_schedule[idx], boxes), s[1])>>)

\* one DES pass over an 8-byte block
CryptWith(input_bytes, key_schedule, boxes) ==
    Bind(IP(input_bytes), LAMBDA state :
    Bind(Rounds(state, key_schedule, boxes, 15), LAMBDA s :
    InvIP(<<Xor(F(s[2], key_schedule[16], boxes), s[1]), s[2]>>)))

Crypt(input_bytes, key_schedule) ==
    CryptWith(input_bytes, key_schedule, SBoxes)

\* bytes a..b of a byte string (1-based, inclusive)
Slice(s, a, b) == Eager([i \in 1..(b - a + 1) |-> s[a + i - 1]])

TripleDESKeySetup(key, mode) ==
    IF mode = ENCRYPT
    THEN <<KeySchedule(Slice(key, 1, 8), mode),
           KeySchedule(Slice(key, 9, 16), DECRYPT),
           KeySchedule(Slice(key, 17, 24), mode)>>
    ELSE <<KeySchedule(Slice(key, 17, 24), mode),
           KeySchedule(Slice(key, 9, 16), ENCRYPT),
           KeySchedule(Slice(key, 1, 8), mode)>>

TripleDESCrypt(input_bytes, key_schedules) ==
    Bind(Crypt(input_bytes, key_schedules[1]), LAMBDA out1 :
    Bind(Crypt(out1, key_schedules[2]), LAMBDA out2 :
    Crypt(out2, key_schedules[3])))

\* QQMusicDecrypt.DEFAULT_KEY, b"!@#)(*$%123ZXC!@!@#)(NHL"
DEFAULT_KEY == <<33, 64, 35, 41, 40, 42, 36, 37, 49, 50, 51, 90, 88, 67, 33, 64,
                 33, 64, 35, 41, 40, 78, 72, 76>>

\* schedule after TripleDESKeySetup(key, schedule, DESHelper.DECRYPT)
DecryptSchedule == TripleDESKeySetup(DEFAULT_KEY, DECRYPT)

(* Crypto.Cipher.DES3 in ECB mode, which encrypt_qrc uses, is the DES of   *)
(* the standard: against DESHelper it reads the bytes of a block and of a  *)
(* key in their order, indexes D with key_compression[j] - 28, and has 14  *)
(* at entry 23 of S-box 2 and 1 at entry 53 of S-box 4.                    *)

StandardSBoxes == [SBoxes EXCEPT ![2][24] = 14, ![4][54] = 1]

\* the bytes of each 32-bit word in reverse order
WordSwap(b) == <<b[4], b[3], b[2], b[1], b[8], b[7], b[6], b[5]>>

StandardKeySchedule(key, mode) ==
    KeyScheduleOf(WordSwap(key), mode, STANDARD_D_OFFSET)

StandardCrypt(block, key_schedule) ==
    Bind(CryptWith(WordSwap(block), key_schedule, StandardSBoxes),
         LAMBDA out : WordSwap(out))

\* the key schedules of DES3.new(key, DES3.MODE_ECB)
DES3_new(key) ==
    <<StandardKeySchedule(Slice(key, 1, 8), ENCRYPT),
      StandardKeySchedule(Slice(key, 9, 16), DECRYPT),
      StandardKeySchedule(Slice(key, 17, 24), ENCRYPT)>>

EncryptSchedule == DES3_new(DEFAULT_KEY)

\* cipher.encrypt on one block: encrypt, decrypt, encrypt
DES3_encrypt(block, key_schedules) ==
    Bind(StandardCrypt(block, key_schedules[1]), LAMBDA out1 :
    Bind(StandardCrypt(out1, key_schedules[2]), LAMBDA out2 :
    StandardCrypt(out2, key_schedules[3])))

-----------------------------------------------------------------------------
(* The encodings around the ciphers                                        *)
(*                                                                         *)
(* A text is a sequence of code points.  An outcome is [ok |-> TRUE,       *)
(* val |-> v] or [ok |-> FALSE, exc |-> e] with e the class of the         *)
(* exception raised.                                                       *)

Ok(v) == [ok |-> TRUE, val |-> v]
Raise(e) == [ok |-> FALSE, exc |-> e]

\* Op(r.val) when r is a value, r itself when it is an exception
Then(r, Op(_)) == Bind(r, LAMBDA x : IF x.ok THEN Op(x.val) ELSE x)

\* s[a..] (1-based), empty past the end
Tail_(s, a) == IF a > Len(s) THEN <<>> ELSE Slice(s, a, Len(s))

\* str.encode('utf-8') of one code point below 65536
EncodeChar(cp) ==
    IF cp < 128 THEN <<cp>>
    ELSE IF cp < 2048 THEN <<192 + (cp \div 64), 128 + (cp % 64)>>
    ELSE <<224 + (cp \div 4096), 128 + ((cp \div 64) % 64), 128 + (cp % 64)>>

RECURSIVE EncodeChars(_, _)
EncodeChars(text, k) ==
    IF k = 0 THEN <<>>
    ELSE EncodeChars(text, k - 1) \o EncodeChar(text[k])

Utf8Encode(text) == EncodeChars(text, Len(text))

IsContinuation(b, i) == i <= Len(b) /\ b[i] >= 128 /\ b[i] < 192

\* bytes.decode('utf-8') from byte i on: the code points, or
\* UnicodeDecodeError
RECURSIVE DecodeFrom(_, _, _)
DecodeFrom(b, i, acc) ==
    IF i > Len(b) THEN Ok(acc)
    ELSE IF b[i] < 128 THEN DecodeFrom(b, i + 1, Append(acc, b[i]))
    ELSE IF b[i] >= 194 /\ b[i] < 224 /\ IsContinuation(b, i + 1)
    THEN DecodeFrom(b, i + 2,
                    Append(acc, (b[i] - 192) * 64 + (b[i + 1] - 128)))
    ELSE IF /\ b[i] >= 224 /\ b[i] < 240
            /\ IsContinuation(b, i + 1) /\ IsContinuation(b, i + 2)
            /\ (b[i] = 224 => b[i + 1] >= 160)
            /\ (b[i] = 237 => b[i + 1] < 160)
    THEN DecodeFrom(b, i + 3,
                    Append(acc, (b[i] - 224) * 4096
                                + (b[i + 1] - 128) * 64 + (b[i + 2] - 128)))
    ELSE Raise("UnicodeDecodeError")

Utf8Decode(b) == DecodeFrom(b, 1, <<>>)

\* the UTF-8 byte order mark, b'\xef\xbb\xbf'
BOM == <<239, 187, 191>>

\* bytes.decode('utf-8-sig'): a leading byte order mark is dropped
Utf8SigDecode(b) ==
    IF Len(b) >= 3 /\ Slice(b, 1, 3) = BOM
    THEN DecodeFrom(b, 4, <<>>)
    ELSE DecodeFrom(b, 1, <<>>)

(* zlib.  compress is modelled by the stored form of the stream, which     *)
(* zlib.compress(data, 0) emits: the two header bytes, one final stored    *)
(* block (a byte with BFINAL = 1 and BTYPE = 00, LEN and its complement    *)
(* in little-endian order, the data) and the Adler-32 checksum of the      *)
(* data.  decompress reads stored blocks; a block announcing Huffman codes *)
(* is answered with zlib.error.                                            *)

ADLER_BASE == 65521

RECURSIVE AdlerA(_, _)
AdlerA(data, k) ==
    IF k = 0 THEN 1 ELSE (AdlerA(data, k - 1) + data[k]) % ADLER_BASE

RECURSIVE AdlerB(_, _)
AdlerB(data, k) ==
    IF k = 0 THEN 0 ELSE (AdlerB(data, k - 1) + AdlerA(data, k)) % ADLER_BASE

\* the four bytes of zlib.adler32(data), most significant first
Adler32(data) ==
    <<AdlerB(data, Len(data)) \div 256, AdlerB(data, Len(data)) % 256,
      AdlerA(data, Len(data)) \div 256, AdlerA(data, Len(data)) % 256>>

ZLIB_HEADER == <<120, 1>>

\* zlib.compress(data)
Compress(data) ==
    ZLIB_HEADER
    \o <<1, Len(data) % 256, Len(data) \div 256,
         255 - (Len(data) % 256), 255 - (Len(data) \div 256)>>
    \o data \o Adler32(data)

\* inflate from byte i on: [data, next] with next the index behind the
\* final block, or zlib.error
RECURSIVE Inflate(_, _, _)
Inflate(b, i, acc) ==
    IF i > Len(b) THEN Raise("zlib.error")
    ELSE IF (b[i] \div 2) % 4 # 0 THEN Raise("zlib.error")
    ELSE IF i + 4 > Len(b) THEN Raise("zlib.error")
    ELSE IF \/ b[i + 1] + b[i + 3] # 255
            \/ b[i + 2] + b[i + 4] # 255
    THEN Raise("zlib.error")
    ELSE LET n == b[i + 1] + 256 * b[i + 2]
         IN  IF i + 4 + n > Len(b) THEN Raise("zlib.error")
             ELSE IF b[i] % 2 = 1
             THEN Ok([data |-> acc \o Slice(b, i + 5, i + 4 + n),
                      next |-> i + 5 + n])
             ELSE Inflate(b, i + 5 + n, acc \o Slice(b, i + 5, i + 4 + n))

\* zlib.decompress(b): header, blocks, checksum; bytes behind the stream
\* are ignored
Decompress(b) ==
    IF Len(b) < 2 THEN Raise("zlib.error")
    ELSE IF \/ b[1] % 16 # 8
            \/ b[1] \div 16 > 7
            \/ (b[1] * 256 + b[2]) % 31 # 0
            \/ (b[2] \div 32) % 2 = 1
    THEN Raise("zlib.error")
    ELSE Then(Inflate(b, 3, <<>>), LAMBDA r :
             IF r.next + 3 > Len(b) THEN Raise("zlib.error")
             ELSE IF Slice(b, r.next, r.next + 3) # Adler32(r.data)
             THEN Raise("zlib.error")
             ELSE Ok(r.data))

\* zlib.decompress(b, -15): the blocks alone
DecompressRaw(b) == Then(Inflate(b, 1, <<>>), LAMBDA r : Ok(r.data))

\* try: zlib.decompress(b) except zlib.error: zlib.decompress(b, -15)
DecompressEither(b) ==
    Bind(Decompress(b), LAMBDA r : IF r.ok THEN r ELSE DecompressRaw(b))

(* Hex strings are sequences of digits 0..15, NOT_HEX standing for any     *)
(* other character.                                                        *)

NOT_HEX == 16

\* bytes.hex().upper()
HexEncode(b) ==
    Eager([i \in 1..(2 * Len(b)) |->
              IF i % 2 = 1 THEN b[(i + 1) \div 2] \div 16
              ELSE b[i \div 2] % 16])

\* bytes.fromhex(s)
FromHex(s) ==
    IF Len(s) % 2 = 1 \/ \E i \in 1..Len(s) : s[i] = NOT_HEX
    THEN Raise("ValueError")
    ELSE Ok(Eager([i \in 1..(Len(s) \div 2) |->
                      s[2 * i - 1] * 16 + s[2 * i]]))

(* Base64 strings are sequences of the values 0..63 of the alphabet, PAD   *)
(* for '=', STRAY for an ASCII character outside the alphabet and          *)
(* NON_ASCII for any other character.                                      *)

PAD == 64
STRAY == 65
NON_ASCII == 66

\* base64.b64encode(b), the bytes taken three at a time from byte i on
RECURSIVE B64EncodeFrom(_, _)
B64EncodeFrom(b, i) ==
    IF i > Len(b) THEN <<>>
    ELSE IF i = Len(b)
    THEN <<b[i] \div 4, (b[i] % 4) * 16, PAD, PAD>>
    ELSE IF i + 1 = Len(b)
    THEN <<b[i] \div 4, (b[i] % 4) * 16 + (b[i + 1] \div 16),
           (b[i + 1] % 16) * 4, PAD>>
    ELSE <<b[i] \div 4, (b[i] % 4) * 16 + (b[i + 1] \div 16),
           (b[i + 1] % 16) * 4 + (b[i + 2] \div 64), b[i + 2] % 64>>
         \o B64EncodeFrom(b, i + 3)

B64Encode(b) == B64EncodeFrom(b, 1)

\* binascii.a2b_base64 without strict mode, from character i on: quad_pos
\* characters of the current group read, left_char their pending bits, pads
\* the '=' seen in a row.  Characters outside the alphabet are skipped;
\* the padding that completes a group ends the data
RECURSIVE A2bBase64(_, _, _, _, _, _)
A2bBase64(s, i, quad_pos, left_char, pads, acc) ==
    IF i > Len(s)
    THEN IF quad_pos # 0 THEN Raise("binascii.Error") ELSE Ok(acc)
    ELSE IF s[i] = PAD
    THEN IF quad_pos >= 2 /\ quad_pos + pads + 1 >= 4 THEN Ok(acc)
         ELSE A2bBase64(s, i + 1, quad_pos, left_char,
                        IF quad_pos >= 2 THEN pads + 1 ELSE pads, acc)
    ELSE IF s[i] > PAD
    THEN A2bBase64(s, i + 1, quad_pos, left_char, pads, acc)
    ELSE CASE quad_pos = 0 ->
                  A2bBase64(s, i + 1, 1, s[i], 0, acc)
           [] quad_pos = 1 ->
                  A2bBase64(s, i + 1, 2, s[i] % 16, 0,
                            Append(acc, left_char * 4 + (s[i] \div 16)))
           [] quad_pos = 2 ->
                  A2bBase64(s, i + 1, 3, s[i] % 4, 0,
                            Append(acc, left_char * 16 + (s[i] \div 4)))
           [] quad_pos = 3 ->
                  A2bBase64(s, i + 1, 0, 0, 0,
                            Append(acc, left_char * 64 + s[i]))

\* base64.b64decode(s): a str must be ASCII
B64Decode(s) ==
    IF \E i \in 1..Len(s) : s[i] = NON_ASCII THEN Raise("ValueError")
    ELSE A2bBase64(s, 1, 0, 0, 0, <<>>)

-----------------------------------------------------------------------------
(* QQMusicDecrypt.decrypt, KugouDecrypt.decrypt and the helpers of         *)
(* scripts/test_decrypter.py that build their inputs (DecryptSpec)         *)

\* the classes caught by "except (ValueError, zlib.error)"
ValueErrors == {"ValueError", "binascii.Error", "UnicodeDecodeError"}

Unhandled(r) == r

\* the except clauses of decrypt: every exception leaves as DecryptionError
Handle(r) ==
    IF r.ok THEN r
    ELSE IF r.exc \in ValueErrors \cup {"zlib.error"}
    THEN Raise("DecryptionError")
    ELSE Raise("DecryptionError")

\* cipher.encrypt(data): the first n blocks of 8 bytes, each on its own
RECURSIVE EcbEncrypt(_, _)
EcbEncrypt(data, n) ==
    IF n = 0 THEN <<>>
    ELSE Bind(EcbEncrypt(data, n - 1), LAMBDA head :
             head \o DES3_encrypt(Slice(data, 8 * n - 7, 8 * n),
                                  EncryptSchedule))

\* encrypt_qrc(text)
encrypt_qrc(text) ==
    Bind(Compress(BOM \o Utf8Encode(text)), LAMBDA compressed :
    Bind(8 - (Len(compressed) % 8), LAMBDA pad_len :
    Bind(IF pad_len # 8
         THEN compressed \o Eager([i \in 1..pad_len |-> 0])
         ELSE compressed, LAMBDA padded :
    HexEncode(EcbEncrypt(padded, Len(padded) \div 8)))))

\* the loop of QQMusicDecrypt.decrypt over the first n blocks; a shorter
\* last block is left out
RECURSIVE DecryptBlocks(_, _)
DecryptBlocks(encrypted_bytes, n) ==
    IF n = 0 THEN <<>>
    ELSE Bind(DecryptBlocks(encrypted_bytes, n - 1), LAMBDA head :
             head \o TripleDESCrypt(Slice(encrypted_bytes, 8 * n - 7, 8 * n),
                                    DecryptSchedule))

QQMusicDecrypt_decrypt(encrypted_text) ==
    Handle(
        Then(FromHex(encrypted_text), LAMBDA encrypted_bytes :
        Bind(DecryptBlocks(encrypted_bytes, Len(encrypted_bytes) \div 8),
             LAMBDA decrypted_bytes :
        Then(DecompressEither(decrypted_bytes), LAMBDA unzipped_bytes :
        Utf8SigDecode(unzipped_bytes)))))

\* KugouDecrypt.MAGIC_KEY
MAGIC_KEY == <<64, 71, 97, 119, 94, 50, 116, 71, 81, 54, 49, 45, 206, 210, 110, 105>>

\* the length of the header KugouDecrypt.decrypt skips
HEADER_LEN == 4

\* payload[i] ^= MAGIC_KEY[i % key_len]
XorKey(payload) ==
    Eager([i \in 1..Len(payload) |->
              XorByte(payload[i], MAGIC_KEY[((i - 1) % Len(MAGIC_KEY)) + 1])])

\* the header encrypt_krc prepends, b'krcl'
KRC_MAGIC == <<107, 114, 99, 108>>

\* the character encrypt_krc prepends, 'k'
KRC_DUMMY == 107

\* encrypt_krc(text)
encrypt_krc(text) ==
    B64Encode(KRC_MAGIC \o XorKey(Compress(<<KRC_DUMMY>> \o Utf8Encode(text))))

KugouDecrypt_decrypt(encrypted_text) ==
    Handle(
        Then(B64Decode(encrypted_text), LAMBDA file_bytes :
        IF Len(file_bytes) <= HEADER_LEN THEN Raise("DecryptionError")
        ELSE Bind(XorKey(Tail_(file_bytes, HEADER_LEN + 1)),
                  LAMBDA encrypted_payload :
             Then(DecompressEither(encrypted_payload), LAMBDA unzipped_bytes :
             Then(Utf8Decode(unzipped_bytes), LAMBDA text :
             Ok(IF text # <<>> THEN Tail_(text, 2) ELSE <<>>))))))

\* the code points of the texts: 'a', e acute and U+FEFF
Chars == {97, 233, 65279}

Texts == UNION {[1..n -> Chars] : n \in 0..MaxText}

NoDamage == [kind |-> "none", at |-> 0]

\* the payload enc, damaged: cut to its first at characters, one character
\* outside the alphabet put in front, or character at replaced
Damaged(enc, damage) ==
    CASE damage.kind = "none" -> enc
      [] damage.kind = "truncate" -> Slice(enc, 1, damage.at)
      [] damage.kind = "stray" -> <<STRAY>> \o enc
      [] damage.kind = "non-ascii" -> <<NON_ASCII>> \o enc
      [] damage.kind = "flip" ->
             [enc EXCEPT ![damage.at] = IF @ = PAD THEN 0 ELSE (@ + 1) % 64]

QrcDamages(enc) ==
    {NoDamage}
    \cup [kind : {"truncate"},
          at : {0, 1, Len(enc) - 16, Len(enc) - 1} \cap 0..Len(enc)]

KrcDamages(enc) ==
    {NoDamage}
    \cup [kind : {"truncate"}, at : 0..(Len(enc) - 1)]
    \cup [kind : {"stray", "non-ascii"}, at : {0}]
    \cup [kind : {"flip"}, at : 1..Len(enc)]

\* the calls: the cipher, the text the payload was built from, the damage
\* done to the payload, the payload
CallsOf(cipher, text, enc, damages) ==
    {[cipher |-> cipher, text |-> text, damage |-> d,
      input |-> Damaged(enc, d)] : d \in damages}

QrcCalls(texts) ==
    UNION {Bind(encrypt_qrc(t), LAMBDA enc :
                CallsOf("qrc", t, enc, QrcDamages(enc))) : t \in texts}

KrcCalls(texts) ==
    UNION {Bind(encrypt_krc(t), LAMBDA enc :
                CallsOf("krc", t, enc, KrcDamages(enc))) : t \in texts}

\* d_result before the call
NotCalled == Raise("not called")

DecryptInit ==
    /\ d_pc = "ready"
    /\ \E c \in QrcCalls(Texts) \cup KrcCalls(Texts) :
           /\ d_cipher = c.cipher
           /\ d_text = c.text
           /\ d_damage = c.damage
           /\ d_input = c.input
    /\ d_result = NotCalled

DecryptIdle ==
    /\ d_pc = "idle"
    /\ d_cipher = "none"
    /\ d_text = <<>>
    /\ d_damage = NoDamage
    /\ d_input = <<>>
    /\ d_result = NotCalled

\* QQMusicDecrypt.decrypt(d_input)
DecryptQrc ==
    /\ d_pc = "ready"
    /\ d_cipher = "qrc"
    /\ d_pc' = "done"
    /\ d_result' = QQMusicDecrypt_decrypt(d_input)
    /\ UNCHANGED <<d_cipher, d_text, d_damage, d_input>>

\* KugouDecrypt.decrypt(d_input)
DecryptKrc ==
    /\ d_pc = "ready"
    /\ d_cipher = "krc"
    /\ d_pc' = "done"
    /\ d_result' = KugouDecrypt_decrypt(d_input)
    /\ UNCHANGED <<d_cipher, d_text, d_damage, d_input>>

-----------------------------------------------------------------------------
(* The /match operation (MatchSpec)                                        *)
(*                                                                         *)
(* A path's outcome is None, a LyricsData [type, lines (their number),     *)
(* source] or an exception.  The paths are taken as given: any outcome may *)
(* follow a call.                                                          *)

None == [kind |-> "None"]
PathRaises == [kind |-> "exception"]

LyricsResults ==
    [kind : {"LyricsData"}, type : {"syllable", "line"},
     lines : 0..MaxMatchLines, source : {"meting", "legacy"}]

\* what service.match_best_lyrics_meting may answer
MetingOutcomes ==
    {None, PathRaises} \cup {r \in LyricsResults : r.source = "meting"}

\* what service.match_best_lyrics may answer
LegacyOutcomes ==
    {None, PathRaises} \cup {r \in LyricsResults : r.source = "legacy"}

\* the requests: title, artist and album of the SongMetadata
Requests ==
    [title : {"Hello", "Night"}, artist : {"", "Adele"},
     album : {"None", "25"}]

AlwaysFallBack(result) == TRUE

\* "not result": a LyricsData object is true whatever its lines
Not(result) == result = None

NotFound == [status |-> 404, detail |-> "No matching lyrics found"]
Found(result) == [status |-> 200, body |-> result]
ServerError == [status |-> 500]
NoResponse == [status |-> 0]

MatchInit ==
    /\ m_pc = "start"
    /\ m_request \in Requests
    /\ m_calls = <<>>
    /\ m_meting = [kind |-> "not called"]
    /\ m_legacy = [kind |-> "not called"]
    /\ m_response = NoResponse

MatchIdle ==
    /\ m_pc = "idle"
    /\ m_request = [title |-> "", artist |-> "", album |-> "None"]
    /\ m_calls = <<>>
    /\ m_meting = [kind |-> "not called"]
    /\ m_legacy = [kind |-> "not called"]
    /\ m_response = NoResponse

\* result = await service.match_best_lyrics_meting(metadata), up to the
\* point where the legacy path is awaited
MetingPath ==
    /\ m_pc = "start"
    /\ \E result \in MetingOutcomes :
          /\ m_meting' = result
          /\ m_calls' = Append(m_calls, [path |-> "meting",
                                         metadata |-> m_request])
          /\ IF result = PathRaises
             THEN m_pc' = "done" /\ m_response' = ServerError
             ELSE IF Not(result)
             THEN m_pc' = "fallback" /\ m_response' = m_response
             ELSE m_pc' = "done" /\ m_response' = Found(result)
    /\ UNCHANGED <<m_request, m_legacy>>

\* result = await service.match_best_lyrics(metadata) and the rest of the
\* handler
LegacyPath ==
    /\ m_pc = "fallback"
    /\ \E result \in LegacyOutcomes :
          /\ m_legacy' = result
          /\ m_calls' = Append(m_calls, [path |-> "legacy",
                                         metadata |-> m_request])
          /\ m_response' =
                 IF result = PathRaises THEN ServerError
                 ELSE IF Not(result) THEN NotFound
                 ELSE Found(result)
    /\ m_pc' = "done"
    /\ UNCHANGED <<m_request, m_meting>>

-----------------------------------------------------------------------------
(* Meting._curl on a shared handle (MetingSpec)                            *)
(*                                                                         *)
(* Requests 1..MaxReq go through one Meting instance, started in any       *)
(* order and at any time.  A text is [kind, body]: body r > 0 is the body  *)
(* of the HTTP response to request r, body 0 is the empty string.          *)

Requests_ == 1..MaxReq

Text(r) == [kind |-> "str", body |-> r]

\* self._retries
_retries == 3

\* self.raw or ''
RawOr(raw) == IF raw = None \/ raw = Text(0) THEN Text(0) ELSE raw

NotReturned == [kind |-> "running"]

MetingInit ==
    /\ h_raw = None
    /\ h_error = None
    /\ h_pc = [r \in Requests_ |-> "new"]
    /\ h_retries = [r \in Requests_ |-> _retries]
    /\ h_failed = [r \in Requests_ |-> 0]
    /\ h_result = [r \in Requests_ |-> NotReturned]

MetingIdle ==
    /\ h_raw = None
    /\ h_error = None
    /\ h_pc = <<>>
    /\ h_retries = <<>>
    /\ h_failed = <<>>
    /\ h_result = <<>>

\* lines 104-122: _curl is entered and make_request sends the request
CurlStarts(r) ==
    /\ r \in DOMAIN h_pc
    /\ h_pc[r] = "new"
    /\ h_pc' = [h_pc EXCEPT ![r] = "request"]
    /\ UNCHANGED <<h_raw, h_error, h_retries, h_failed, h_result>>

\* lines 124-141: the response arrives; empty: its text is the empty string
ResponseArrives(r, empty) ==
    /\ r \in DOMAIN h_pc
    /\ h_pc[r] = "request"
    /\ h_raw' = IF empty THEN Text(0) ELSE Text(r)
    /\ h_error' = None
    /\ h_result' = [h_result EXCEPT ![r] = h_raw']
    /\ h_pc' = [h_pc EXCEPT ![r] = "done"]
    /\ UNCHANGED <<h_retries, h_failed>>

\* lines 143-160: the request raises (timeout, HTTP error, anything else):
\* sleep before the next attempt, or return what the handle holds
RequestFails(r, error) ==
    /\ r \in DOMAIN h_pc
    /\ h_pc[r] = "request"
    /\ h_error' = [kind |-> error]
    /\ h_failed' = [h_failed EXCEPT ![r] = @ + 1]
    /\ IF h_retries[r] > 0
       THEN /\ h_retries' = [h_retries EXCEPT ![r] = @ - 1]
            /\ h_pc' = [h_pc EXCEPT ![r] = "sleep"]
            /\ UNCHANGED h_result
       ELSE /\ h_result' = [h_result EXCEPT ![r] = RawOr(h_raw)]
            /\ h_pc' = [h_pc EXCEPT ![r] = "done"]
            /\ UNCHANGED h_retries
    /\ UNCHANGED h_raw

\* asyncio.sleep(1) is over: make_request runs again
SleepEnds(r) ==
    /\ r \in DOMAIN h_pc
    /\ h_pc[r] = "sleep"
    /\ h_pc' = [h_pc EXCEPT ![r] = "request"]
    /\ UNCHANGED <<h_raw, h_error, h_retries, h_failed, h_result>>

-----------------------------------------------------------------------------
(* LyricsService.get_standardized_lyrics and _fetch_via_meting (GslSpec)   *)
(*                                                                         *)
(* One (song id, provider) is requested up to MaxCalls times; the provider *)
(* answers every download with the same payload.  The payload is kept as   *)
(* its decrypted text: either a JSON object [ok, has_lrc, lrc, tlyric]     *)
(* (ok: code 200 and not uncollected; lrc and tlyric are the lines of the  *)
(* two LRC texts) or a text of segments as in ParseSpec, one segment per   *)
(* line, with its translation map.  An LRC line is [timed, st, txt]; a     *)
(* LyricsData is [lines, ai_status].  A JSON object whose lrc has no timed *)
(* line carries no tlyric.  LyricsUncensor.uncensor_lyrics rewrites        *)
(* censored words only and leaves the texts used here as they are.         *)

\* ai_status: str = "success"
DEFAULT_AI_STATUS == "success"

\* LyricsData(lines=lines)
LyricsData(ls) == [lines |-> ls, ai_status |-> DEFAULT_AI_STATUS]

LrcTexts == {"", "la", "Lyricist : Fang"}

LrcLines ==
    [timed : {TRUE}, st : SegStarts, txt : LrcTexts]
    \cup {[timed |-> FALSE, st |-> 0, txt |-> "la"]}

TLyricLines == [timed : {TRUE}, st : SegStarts, txt : {"tr1"}]

GslSegments ==
    {[tag |-> "ms", start |-> 100, dur |-> 20, content |-> "krc"],
     [tag |-> "ms", start |-> 100, dur |-> 20, content |-> "none"],
     [tag |-> "lrc", start |-> 100, dur |-> 0, content |-> "text"],
     [tag |-> "lrc", start |-> 100, dur |-> 0, content |-> "none"],
     [tag |-> "lrc", start |-> 103, dur |-> 0, content |-> "text"],
     [tag |-> "meta", start |-> 0, dur |-> 0, content |-> "none"]}

JsonTexts ==
    {[fmt |-> "json", ok |-> FALSE, has_lrc |-> FALSE, lrc |-> <<>>,
      tlyric |-> <<>>],
     [fmt |-> "json", ok |-> TRUE, has_lrc |-> FALSE, lrc |-> <<>>,
      tlyric |-> <<>>]}
    \cup {t \in [fmt : {"json"}, ok : {TRUE}, has_lrc : {TRUE},
                 lrc : UNION {[1..n -> LrcLines] : n \in 0..MaxSegs},
                 tlyric : UNION {[1..n -> TLyricLines] : n \in 0..1}] :
            (\A i \in DOMAIN t.lrc : ~t.lrc[i].timed) => t.tlyric = <<>>}

SegmentTexts ==
    [fmt : {"text"},
     segs : UNION {[1..n -> GslSegments] : n \in 0..MaxSegs},
     trans : ParseTransMaps]

\* trans_map[time_sec] = text over the timed lines of the translation LRC
RECURSIVE TransMapOf(_, _)
TransMapOf(tlyric, k) ==
    IF k = 0 THEN <<>>
    ELSE LET rest == TransMapOf(tlyric, k - 1)
             e == [time |-> tlyric[k].st, text |-> tlyric[k].txt]
         IN  IF ~tlyric[k].timed THEN rest
             ELSE IF \E i \in DOMAIN rest : rest[i].time = e.time
                  THEN [i \in DOMAIN rest |->
                           IF rest[i].time = e.time THEN e ELSE rest[i]]
             ELSE Append(rest, e)

\* trans_map.get(time_sec): None is kept as ""
Get(trans_map, time_sec) ==
    IF \E i \in DOMAIN trans_map : trans_map[i].time = time_sec
    THEN (CHOOSE e \in {trans_map[i] : i \in DOMAIN trans_map} :
              e.time = time_sec).text
    ELSE ""

\* the loop over the LRC lines [1..k]: a Line for every line the timestamp
\* pattern matches, its translation looked up in trans_map
RECURSIVE LrcLinesOf(_, _, _)
LrcLinesOf(lrc, k, trans_map) ==
    IF k = 0 THEN <<>>
    ELSE LET rest == LrcLinesOf(lrc, k - 1, trans_map) IN
         IF lrc[k].timed
         THEN Append(rest, [seg |-> k, st |-> lrc[k].st, et |-> lrc[k].st,
                            txt |-> lrc[k].txt,
                            trans |-> Get(trans_map, lrc[k].st),
                            words |-> <<>>])
         ELSE rest

\* the LRC lines of a text of segments: the timestamp pattern matches the
\* segments with a [minutes:seconds] tag
SegmentsAsLrc(segs) ==
    [k \in DOMAIN segs |->
        [timed |-> segs[k].tag = "lrc", st |-> segs[k].start,
         txt |-> IF segs[k].content = "none" THEN "" ELSE "la"]]

\* QrcParser.parse of the decrypted text.  A JSON text without a bracket is
\* one untimed segment: a single line at 0.0 s whose text is the JSON
QrcParse(text) ==
    IF text.fmt = "json"
    THEN <<[seg |-> 1, st |-> 0, et |-> 0, txt |-> "{json}", trans |-> "",
            words |-> <<>>]>>
    ELSE _apply_translations(ParseSegments(text.segs, Len(text.segs)),
                             text.trans)

\* the simple LRC parse of step 3 (lines 465-477): no translations.  A JSON
\* text that got this far holds no timestamp
SimpleLrc(text) ==
    IF text.fmt = "json" THEN <<>>
    ELSE LrcLinesOf(SegmentsAsLrc(text.segs), Len(text.segs), <<>>)

\* LyricsCleaner.clean on the lines of a result
CleanedLines(ls) ==
    IF ls = <<>> THEN ls
    ELSE clean_header_metadata(
             SortByStart(CleanLines(ls, Len(ls)), Len(CleanLines(ls, Len(ls)))))

\* if not result.ai_status: result.ai_status = "can_enrich"
MarkCanEnrich(result) ==
    IF result.ai_status = "" THEN [result EXCEPT !.ai_status = "can_enrich"]
    ELSE result

\* lines 424-440 (and 447-460, 479-497, 191-210): clean, uncensor, mark
Standardize(result) ==
    MarkCanEnrich([result EXCEPT !.lines = CleanedLines(result.lines)])

\* step 3 of get_standardized_lyrics, the parse: [tried, result, save];
\* tried lists the parsers that ran, save says a save point was reached
ParseStep(text, is_lrc) ==
    LET json_lines == LrcLinesOf(text.lrc, Len(text.lrc),
                                 TransMapOf(text.tlyric, Len(text.tlyric)))
        qrc == LyricsData(QrcParse(text))
        lrc_lines == SimpleLrc(text)
        from_lrc(tried) ==
            IF lrc_lines # <<>>
            THEN [tried |-> Append(tried, "lrc"),
                  result |-> Standardize(LyricsData(lrc_lines)), save |-> TRUE]
            ELSE [tried |-> Append(tried, "lrc"), result |-> None,
                  save |-> FALSE]
        from_qrc(tried) ==
            IF is_lrc THEN from_lrc(tried)
            ELSE \* the QrcParser result is taken whatever it holds
                 [tried |-> Append(tried, "qrc"),
                  result |-> Standardize(qrc), save |-> TRUE]
    IN  IF text.fmt # "json" THEN from_qrc(<<>>)
        ELSE IF ~text.ok
             THEN [tried |-> <<"json">>, result |-> None, save |-> FALSE]
        ELSE IF ~text.has_lrc THEN from_qrc(<<"json">>)
        ELSE IF text.lrc = <<>>
             THEN [tried |-> <<"json">>, result |-> None, save |-> FALSE]
        ELSE IF json_lines # <<>>
             THEN [tried |-> <<"json">>,
                   result |-> Standardize(LyricsData(json_lines)),
                   save |-> TRUE]
        ELSE from_qrc(<<"json">>)

\* what ai_service.enrich_lyrics can leave in ai_status
EnrichStatuses == {"success", "failed_api", "skipped_no_key"}

GslInit ==
    /\ g_pc = "ready"
    /\ g_text \in JsonTexts \cup SegmentTexts
    /\ g_is_lrc \in BOOLEAN
    /\ g_cache = None
    /\ g_log = <<>>

GslIdle ==
    /\ g_pc = "idle"
    /\ g_text = None
    /\ g_is_lrc = FALSE
    /\ g_cache = None
    /\ g_log = <<>>

\* one call of get_standardized_lyrics; style: style_instruction is given,
\* downloaded: fetch_lyric answered with the payload (else with nothing),
\* status: what an enrichment of the cached result leaves in ai_status
GetStandardizedLyrics(style, downloaded, status) ==
    /\ g_pc = "ready"
    /\ Len(g_log) < MaxCalls
    /\ IF g_cache # None
       THEN \* cache hit: lines 264-277
            /\ g_log' = Append(g_log,
                   [via |-> "gsl", hit |-> TRUE, fetched |-> FALSE,
                    tried |-> <<>>, enriched |-> style, saved |-> FALSE,
                    result |-> IF style
                               THEN [g_cache EXCEPT !.ai_status = status]
                               ELSE g_cache])
            /\ UNCHANGED g_cache
       ELSE IF ~downloaded
       THEN \* lines 294-296: the download is empty
            /\ g_log' = Append(g_log,
                   [via |-> "gsl", hit |-> FALSE, fetched |-> TRUE,
                    tried |-> <<>>, enriched |-> FALSE, saved |-> FALSE,
                    result |-> None])
            /\ UNCHANGED g_cache
       ELSE LET p == ParseStep(g_text, g_is_lrc) IN
            /\ g_log' = Append(g_log,
                   [via |-> "gsl", hit |-> FALSE, fetched |-> TRUE,
                    tried |-> p.tried, enriched |-> FALSE,
                    saved |-> (p.save /\ ~style), result |-> p.result])
            /\ g_cache' = IF p.save /\ ~style THEN p.result ELSE g_cache
    /\ UNCHANGED <<g_pc, g_text, g_is_lrc>>

\* one call of _fetch_via_meting: the payload is Meting's {lyric, tlyric}
FetchViaMeting ==
    /\ g_pc = "ready"
    /\ Len(g_log) < MaxCalls
    /\ g_text.fmt = "json"
    /\ g_text.ok /\ g_text.has_lrc
    /\ LET lines_ == LrcLinesOf(g_text.lrc, Len(g_text.lrc),
                                TransMapOf(g_text.tlyric, Len(g_text.tlyric)))
       IN  g_log' = Append(g_log,
               [via |-> "meting", hit |-> FALSE, fetched |-> TRUE,
                tried |-> <<"json">>, enriched |-> FALSE, saved |-> FALSE,
                result |-> IF lines_ = <<>> THEN None
                           ELSE Standardize(LyricsData(lines_))])
    /\ UNCHANGED <<g_pc, g_text, g_is_lrc, g_cache>>

-----------------------------------------------------------------------------
(* The two asyncio.gather calls of a match (RankSpec)                      *)
(*                                                                         *)
(* One strategy (the original metadata with an artist that simplifies, so  *)
(* two sub-searches) is searched on every provider; the responses arrive   *)
(* in any order and `at` numbers them as they arrive.  The candidates are  *)
(* ranked and fetched; the fetches complete in any order.                  *)

RankStrategy == "orig"

\* the search variables while RankSpec runs: a request whose artist holds
\* a separator
MultiArtistIdle ==
    /\ metadata = [artist |-> "multi", has_title |-> TRUE, ascii |-> FALSE]
    /\ has_translator = FALSE
    /\ pc = "idle"
    /\ call = NoCall
    /\ romaji_changed = FALSE
    /\ zh_changed = FALSE
    /\ search_queue = <<>>
    /\ qi = 1
    /\ results_list = <<>>
    /\ candidates = <<>>
    /\ searched = <<>>
    /\ batch_best = <<>>
    /\ returned = "running"

RankInit ==
    /\ o_pc = "searching"
    /\ o_rl = [c \in Calls(RankStrategy) |->
                  [status |-> "pending", how |-> "pending", result |-> <<>>,
                   at |-> 0]]
    /\ o_merged = <<>>
    /\ o_cands = <<>>
    /\ o_data = <<>>
    /\ o_done = <<>>
    /\ o_result = -1

RankIdle ==
    /\ o_pc = "idle"
    /\ o_rl = <<>>
    /\ o_merged = <<>>
    /\ o_cands = <<>>
    /\ o_data = <<>>
    /\ o_done = <<>>
    /\ o_result = -1

\* the ways provider.search under asyncio.wait_for can end
SearchEnds == {"returned", "raised", "timeout"}

\* search_with_timeout: what the task hands to gather
search_with_timeout(how, resp) ==
    CASE how = "returned" -> resp
      [] how = "timeout" -> <<>>
      [] how = "raised" -> <<>>

\* the task of call c ends, the next one to do so
TaskEnds(c, how, resp) ==
    /\ o_pc = "searching"
    /\ c \in DOMAIN o_rl
    /\ o_rl[c].status = "pending"
    /\ o_rl' = [o_rl EXCEPT ![c] =
                   [status |-> "done", how |-> how,
                    result |-> search_with_timeout(how, resp),
                    at |-> 1 + Cardinality({d \in DOMAIN o_rl :
                                               o_rl[d].status = "done"})]]
    /\ UNCHANGED <<o_pc, o_merged, o_cands, o_data, o_done, o_result>>

\* provider.search of call c returns resp within the 15 s
SearchReturns(c, resp) ==
    /\ resp = <<>> \/ NonEmpty(o_rl) < MaxCand
    /\ TaskEnds(c, "returned", resp)

\* provider.search of call c raises
SearchRaises(c) == TaskEnds(c, "raised", <<>>)

\* asyncio.wait_for gives up on call c after 15 s
SearchTimesOut(c) == TaskEnds(c, "timeout", <<>>)

\* both gathers of search_all returned: merge, score, filter, sort; then
\* return None or create the fetch tasks of the top candidates
MergeAndRank ==
    /\ o_pc = "searching"
    /\ \A c \in DOMAIN o_rl : o_rl[c].status = "done"
    /\ o_merged' = SearchAllResult(RankStrategy, o_rl)
    /\ o_cands' = SortCandidates(CurrentBatch(RankStrategy, o_merged'))
    /\ IF o_cands' = <<>>
       THEN /\ o_pc' = "done"
            /\ o_result' = 0
            /\ UNCHANGED o_data
       ELSE /\ o_pc' = "fetching"
            /\ o_data' = [i \in 1..Len(TopCandidates(o_cands')) |-> NoLyrics]
            /\ UNCHANGED o_result
    /\ UNCHANGED <<o_rl, o_done>>

\* fetch_one of top candidate i returns (candidate_data, lyrics_data) for
\* what get_standardized_lyrics did
FetchCompletes(i, outcome) ==
    /\ o_pc = "fetching"
    /\ i \in DOMAIN o_data
    /\ \A k \in DOMAIN o_done : o_done[k] # i
    /\ o_data' = [o_data EXCEPT ![i] = FetchOne(outcome)]
    /\ o_done' = Append(o_done, i)
    /\ UNCHANGED <<o_pc, o_rl, o_merged, o_cands, o_result>>

\* the fetch gather returned: lines 645-674
SelectResult ==
    /\ o_pc = "fetching"
    /\ Len(o_done) = Len(o_data)
    /\ o_result' = Select(TopCandidates(o_cands), o_data)
    /\ o_pc' = "done"
    /\ UNCHANGED <<o_rl, o_merged, o_cands, o_data, o_done>>

-----------------------------------------------------------------------------
(* The specifications                                                      *)

Init == SearchInit /\ FetchIdle /\ RetryIdle /\ CleanIdle /\ TransIdle /\ ParseIdle /\ DecryptIdle /\ MatchIdle /\ MetingIdle /\ GslIdle /\ RankIdle

Next ==
    \/ Start /\ UNCHANGED notS
    \/ (\E changed \in BOOLEAN : TranslateReturns(changed)) /\ UNCHANGED notS
    \/ TranslateRaises /\ UNCHANGED notS
    \/ IssueSearch /\ UNCHANGED notS
    \/ (\E c \in DOMAIN results_list, p \in 1..Len(Providers) :
            \E resp \in Responses(p) :
                c[2] = p /\ ProviderResponds(c, resp)) /\ UNCHANGED notS
    \/ (\E c \in DOMAIN results_list : ProviderRaises(c)) /\ UNCHANGED notS
    \/ (\E c \in DOMAIN results_list : ProviderTimesOut(c)) /\ UNCHANGED notS
    \/ ScoreBatch /\ UNCHANGED notS
    \/ Rank /\ UNCHANGED notS

Spec == Init /\ [][Next]_vars

FInit == SearchIdle /\ FetchInit /\ RetryIdle /\ CleanIdle /\ TransIdle /\ ParseIdle /\ DecryptIdle /\ MatchIdle /\ MetingIdle /\ GslIdle /\ RankIdle

FNext ==
    \/ (\E i \in DOMAIN task : StartFetch(i)) /\ UNCHANGED notF
    \/ (\E i \in DOMAIN task : EnrichReturns(i)) /\ UNCHANGED notF
    \/ (\E i \in DOMAIN task : GslReturnsNone(i)) /\ UNCHANGED notF
    \/ (\E i \in DOMAIN task, lyrics \in ParsedLyrics :
            GslReturnsLyrics(i, lyrics)) /\ UNCHANGED notF
    \/ (\E i \in DOMAIN task : GslRaises(i)) /\ UNCHANGED notF
    \/ SelectBest /\ UNCHANGED notF

FetchSpec == FInit /\ [][FNext]_vars

RInit == SearchIdle /\ FetchIdle /\ RetryInit /\ CleanIdle /\ TransIdle /\ ParseIdle /\ DecryptIdle /\ MatchIdle /\ MetingIdle /\ GslIdle /\ RankIdle

RNext ==
    \/ Lookup /\ UNCHANGED notR
    \/ Tick /\ UNCHANGED notR
    \/ (\E payload \in Payloads : AttemptReturns(payload)) /\ UNCHANGED notR
    \/ QQAttemptEnds /\ UNCHANGED notR
    \/ AttemptRaises /\ UNCHANGED notR
    \/ AttemptTimesOut /\ UNCHANGED notR
    \/ BackoffEnds /\ UNCHANGED notR

RetrySpec == RInit /\ [][RNext]_vars

CInit == SearchIdle /\ FetchIdle /\ RetryIdle /\ CleanInit /\ TransIdle /\ ParseIdle /\ DecryptIdle /\ MatchIdle /\ MetingIdle /\ GslIdle /\ RankIdle

CNext ==
    \/ Clean /\ UNCHANGED notC
    \/ CleanAgain /\ UNCHANGED notC

CleanSpec == CInit /\ [][CNext]_vars

AInit == SearchIdle /\ FetchIdle /\ RetryIdle /\ CleanIdle /\ TransInit /\ ParseIdle /\ DecryptIdle /\ MatchIdle /\ MetingIdle /\ GslIdle /\ RankIdle

ANext == ApplyTranslations /\ UNCHANGED notA

TransSpec == AInit /\ [][ANext]_vars

PInit ==
    /\ SearchIdle /\ FetchIdle /\ RetryIdle /\ CleanIdle /\ TransIdle
    /\ ParseInit /\ DecryptIdle /\ MatchIdle /\ MetingIdle /\ GslIdle /\ RankIdle

PNext == Parse /\ UNCHANGED notP

ParseSpec == PInit /\ [][PNext]_vars

DInit ==
    /\ SearchIdle /\ FetchIdle /\ RetryIdle /\ CleanIdle /\ TransIdle
    /\ ParseIdle /\ DecryptInit /\ MatchIdle /\ MetingIdle /\ GslIdle /\ RankIdle

DNext ==
    \/ DecryptQrc /\ UNCHANGED notD
    \/ DecryptKrc /\ UNCHANGED notD

DecryptSpec == DInit /\ [][DNext]_vars

MInit ==
    /\ SearchIdle /\ FetchIdle /\ RetryIdle /\ CleanIdle /\ TransIdle
    /\ ParseIdle /\ DecryptIdle /\ MatchInit /\ MetingIdle /\ GslIdle /\ RankIdle

MNext ==
    \/ MetingPath /\ UNCHANGED notM
    \/ LegacyPath /\ UNCHANGED notM

MatchSpec == MInit /\ [][MNext]_vars

HInit ==
    /\ SearchIdle /\ FetchIdle /\ RetryIdle /\ CleanIdle /\ TransIdle
    /\ ParseIdle /\ DecryptIdle /\ MatchIdle /\ MetingInit /\ GslIdle /\ RankIdle

HNext ==
    \/ (\E r \in Requests_ : CurlStarts(r)) /\ UNCHANGED notH
    \/ (\E r \in Requests_, empty \in BOOLEAN : ResponseArrives(r, empty))
          /\ UNCHANGED notH
    \/ (\E r \in Requests_, error \in {"TIMEOUT", "ConnectError"} :
            RequestFails(r, error)) /\ UNCHANGED notH
    \/ (\E r \in Requests_ : SleepEnds(r)) /\ UNCHANGED notH

MetingSpec == HInit /\ [][HNext]_vars

GInit ==
    /\ SearchIdle /\ FetchIdle /\ RetryIdle /\ CleanIdle /\ TransIdle
    /\ ParseIdle /\ DecryptIdle /\ MatchIdle /\ MetingIdle /\ GslInit /\ RankIdle

GNext ==
    \/ (\E style \in BOOLEAN, downloaded \in BOOLEAN,
            status \in EnrichStatuses :
            GetStandardizedLyrics(style, downloaded, status))
          /\ UNCHANGED notG
    \/ FetchViaMeting /\ UNCHANGED notG

GslSpec == GInit /\ [][GNext]_vars

OInit ==
    /\ MultiArtistIdle /\ FetchIdle /\ RetryIdle /\ CleanIdle /\ TransIdle
    /\ ParseIdle /\ DecryptIdle /\ MatchIdle /\ MetingIdle /\ GslIdle
    /\ RankInit

ONext ==
    \/ (\E c \in Calls(RankStrategy) : \E resp \in Responses(c[2]) :
            SearchReturns(c, resp)) /\ UNCHANGED notO
    \/ (\E c \in Calls(RankStrategy) : SearchRaises(c)) /\ UNCHANGED notO
    \/ (\E c \in Calls(RankStrategy) : SearchTimesOut(c)) /\ UNCHANGED notO
    \/ MergeAndRank /\ UNCHANGED notO
    \/ (\E i \in 1..MAX_PARALLEL :
            \E outcome \in ParsedLyrics \cup {NoLyrics, Raised} :
               FetchCompletes(i, outcome)) /\ UNCHANGED notO
    \/ SelectResult /\ UNCHANGED notO

RankSpec == OInit /\ [][ONext]_vars

-----------------------------------------------------------------------------
(* Claims about the search phase (Spec)                                    *)

\* C2: a strategy is searched only if every strategy searched before it left
\* a best surviving score of 80 or less (0: nothing survived), and the loop
\* stops with strategies of the queue still unsearched only when the last
\* searched strategy left a surviving score strictly greater than 80.
C2_EarlyExit ==
    /\ \A k \in 1..Len(batch_best) :
          k < Len(searched) => batch_best[k] <= HighConfidence
    /\ (pc \in {"rank", "done"} /\ Len(searched) < Len(search_queue))
          => batch_best[Len(batch_best)] > HighConfidence
    /\ (pc = "search" /\ Len(batch_best) > 0)
          => /\ batch_best[Len(batch_best)] <= HighConfidence
             /\ qi = Len(searched) + 1
             /\ qi <= Len(search_queue)

\* C2 witness: a first strategy left a survivor of at most 80, the next one
\* was searched and left a survivor above 80, and the rest was never searched
C2_Witness ==
    /\ pc = "done"
    /\ Len(searched) >= 2
    /\ Len(searched) < Len(search_queue)
    /\ batch_best[1] >= Threshold
    /\ batch_best[1] <= HighConfidence
    /\ batch_best[Len(batch_best)] > HighConfidence

\* C4 (as claimed): the candidate list holds at most one entry per
\* (provider, song id)
C4_NoDuplicateCandidates ==
    \A i, j \in 1..Len(candidates) :
        (candidates[i].provider = candidates[j].provider
         /\ candidates[i].id = candidates[j].id) => i = j

\* C8 (as claimed): while match_best_lyrics has not returned, it can always
\* take a further step, whichever collaborator never responds: every call in
\* flight either returns or is ended by its timeout
C8_EveryCallBounded == pc = "done" \/ ENABLED Next

-----------------------------------------------------------------------------
(* Claims about the fetch phase (FetchSpec)                                *)

Top == TopCandidates(scored_candidates)

\* the result of top candidate i is a vocal one
Vocal(i) == lyrics_data[i] # NoLyrics /\ ~IsInstrumental(lyrics_data[i])

\* C1 (as claimed): when a syllable-capable candidate and a non-syllable
\* candidate were both fetched and both gave vocal lyrics, the result returned
\* is that of a syllable-capable candidate, whatever the scores
C1_SyllablePreferred ==
    f_pc = "done" =>
        \A i, j \in DOMAIN lyrics_data :
            (Top[i].is_syllable /\ ~Top[j].is_syllable /\ Vocal(i) /\ Vocal(j))
                => (f_result >= 1 /\ Top[f_result].is_syllable)

\* C3: with a vocal result among the fetched ones a vocal result is returned;
\* with results but no vocal one, an instrumental result of the highest score
\* among the candidates that gave a result is returned; None is returned
\* exactly when no fetched candidate gave a result
C3_SelectionPolicy ==
    f_pc = "done" =>
        /\ f_result >= 0
        /\ (\E i \in DOMAIN lyrics_data : Vocal(i))
              => (f_result >= 1 /\ Vocal(f_result))
        /\ ((\A i \in DOMAIN lyrics_data : ~Vocal(i))
            /\ (\E i \in DOMAIN lyrics_data : lyrics_data[i] # NoLyrics))
              => /\ f_result >= 1
                 /\ lyrics_data[f_result] # NoLyrics
                 /\ IsInstrumental(lyrics_data[f_result])
                 /\ \A j \in DOMAIN lyrics_data :
                       lyrics_data[j] # NoLyrics
                          => Top[f_result].score >= Top[j].score
        /\ (f_result = 0) = (\A i \in DOMAIN lyrics_data : lyrics_data[i] = NoLyrics)

\* C3 witness: an instrumental result scored above a vocal one, and the vocal
\* one was returned
C3_Witness ==
    /\ f_pc = "done"
    /\ f_result >= 1
    /\ Vocal(f_result)
    /\ \E i \in DOMAIN lyrics_data :
          /\ lyrics_data[i] # NoLyrics
          /\ IsInstrumental(lyrics_data[i])
          /\ Top[i].score > Top[f_result].score

\* C5: match_best_lyrics never ends with an exception of a candidate's fetch:
\* a task whose get_standardized_lyrics raised returns no result, all top
\* candidates are still fetched, any result of another candidate is returned,
\* and None is returned when no candidate gave one
C5_CandidateFailureContained ==
    /\ \A i \in DOMAIN lyrics_data : lyrics_data[i] # Raised
    /\ f_pc = "done" =>
          /\ f_result # -2
          /\ \A i \in DOMAIN task : task[i] = "done" /\ gsl_calls[i] = 1
          /\ (\E i \in DOMAIN lyrics_data : lyrics_data[i] # NoLyrics)
                => f_result >= 1
          /\ (\A i \in DOMAIN lyrics_data : lyrics_data[i] = NoLyrics)
                => f_result = 0

\* C5 witness: an exception was caught in one task and the call still
\* returned another candidate's result
C5_Witness ==
    /\ f_pc = "done"
    /\ caught
    /\ f_result >= 1

InFlight == {i \in DOMAIN task : task[i] \in {"download", "enrich"}}

\* C6: at most CONCURRENCY_LIMIT get_standardized_lyrics calls are in flight
\* at any moment, only the MAX_PARALLEL best-ranked candidates are ever
\* fetched, and the semaphore counts the calls in flight
C6_BoundedFetch ==
    /\ Cardinality(InFlight) <= CONCURRENCY_LIMIT
    /\ semaphore = CONCURRENCY_LIMIT - Cardinality(InFlight)
    /\ \A i \in DOMAIN gsl_calls : i > MAX_PARALLEL => gsl_calls[i] = 0
    /\ Cardinality({i \in DOMAIN gsl_calls : gsl_calls[i] > 0}) <= MAX_PARALLEL

\* C6 witness: more than MAX_PARALLEL candidates, the limit of fetches in
\* flight and a further task held back by the semaphore
C6_Witness ==
    /\ Len(scored_candidates) > MAX_PARALLEL
    /\ Cardinality(InFlight) = CONCURRENCY_LIMIT
    /\ \E i \in DOMAIN task : task[i] = "waiting"

\* C9 (as claimed): a request with a style instruction performs no cache
\* operation
C9_NoCacheOpsWithStyle == f_style => cache_ops = {}

-----------------------------------------------------------------------------
(* Claims about Aggregator.fetch_lyric (RetrySpec)                         *)

Failures(log) == \A k \in 1..Len(log) : log[k] \in {"error", "timeout"}

\* C7: fetch_lyric makes at most max_retries attempts, none waits longer
\* than its own timeout, every attempt but the first follows exactly one
\* backoff and no backoff follows the last attempt, the first attempt that
\* returns ends the call with its payload, and max_retries failed attempts
\* (or an unknown provider) end it with None
C7_RetryPolicy ==
    /\ Len(r_log) <= max_retries
    /\ r_clock <= FetchTimeout
    /\ r_sleeps <= max_retries - 1
    /\ r_pc = "attempt" =>
          /\ Len(r_log) = attempt
          /\ r_sleeps = attempt
          /\ Failures(r_log)
    /\ r_pc = "backoff" =>
          /\ Len(r_log) < max_retries
          /\ r_sleeps = Len(r_log)
          /\ Failures(r_log)
    /\ r_pc = "done" =>
          /\ r_result \in Payloads \cup {"None"}
          /\ r_result \in Payloads =>
                /\ r_log[Len(r_log)] = "ok"
                /\ Failures(SubSeq(r_log, 1, Len(r_log) - 1))
                /\ r_sleeps = Len(r_log) - 1
          /\ r_result = "None" =>
                \/ ~provider_found /\ r_log = <<>>
                \/ /\ Len(r_log) = max_retries
                   /\ Failures(r_log)
                   /\ r_sleeps = max_retries - 1

\* C7 witness: three attempts failed, one of them by its timeout, two
\* backoffs were taken and None was returned
C7_Witness ==
    /\ r_pc = "done"
    /\ r_result = "None"
    /\ Len(r_log) = max_retries
    /\ r_sleeps = max_retries - 1
    /\ \E k \in 1..Len(r_log) : r_log[k] = "timeout"

\* C20: a fetch from QQ Music whose request fails with a transport error on
\* the first attempt and would succeed on the second or third returns the
\* payload of the successful attempt
C20_TransportErrorRetried ==
    (/\ r_pc = "done"
     /\ r_net # OtherProvider
     /\ r_net[1] = "transport error"
     /\ r_log # <<>>
     /\ r_log[1] # "timeout"
     /\ \E a \in 2..max_retries : r_net[a] = "content")
       => r_result = "dict"

-----------------------------------------------------------------------------
(* Claims about the cleaner (CleanSpec)                                    *)

InSeq(x, s) == \E j \in 1..Len(s) : s[j] = x

\* line k of the input lies outside both windows, starts after 0.5 s and
\* is neither a bracket metadata tag nor an empty timestamp
BodyLine(k) ==
    LET text == Strip(c_input[k].txt) IN
    /\ HEAD_LIMIT <= k - 1
    /\ k - 1 < Len(c_input) - TAIL_WINDOW
    /\ c_input[k].st > ZeroTime
    /\ ~IsLrcTag(text)
    /\ ~IsMetadataBracket(text)
    /\ ~IsEmptyTimestamp(text)

\* position of input line k among the surviving lines sorted by st
SortedPosition(k) ==
    LET sorted == SortByStart(clean_lines, Len(clean_lines)) IN
    CHOOSE j \in 1..Len(sorted) : sorted[j] = c_input[k]

SomeRule(k) ==
    LET text == Strip(c_input[k].txt) IN
    \/ IsLrcTag(text)
    \/ IsMetadataBracket(text)
    \/ IsEmptyTimestamp(text)
    \/ MatchesStrict(text)
    \/ c_input[k].st <= ZeroTime /\ MatchesMetaKey(text)

\* the header-scope pass cut nothing
NoHeaderCut == StartIndex(SortByStart(clean_lines, Len(clean_lines))) = 0

\* C11: for an input of at most 12 lines on which the header-scope pass
\* cuts nothing, a line is moved to credits if and only if some rule applies
\* to it and every other line is kept; for the five lines of the cleaner
\* test exactly the 2 lyric lines remain and exactly 3 texts are in credits
C11_HeadInputClassified ==
    (c_pc = "done" /\ Len(c_input) <= HEAD_LIMIT /\ NoHeaderCut) =>
        /\ \A k \in 1..Len(c_input) :
              /\ InSeq(Strip(c_input[k].txt), credits) <=> SomeRule(k)
              /\ ~SomeRule(k) => InSeq(c_input[k], lines)
        /\ c_input = TestLines =>
              /\ lines = <<TestLines[3], TestLines[5]>>
              /\ Len(credits) = 3

\* the stripped texts of input lines 1..k that have non-empty text and are
\* not among the cleaned lines, in input order
RECURSIVE RemovedTexts(_)
RemovedTexts(k) ==
    IF k = 0 THEN <<>>
    ELSE LET rest == RemovedTexts(k - 1)
             text == Strip(c_input[k].txt)
         IN  IF text # "" /\ ~InSeq(c_input[k], lines)
             THEN Append(rest, text)
             ELSE rest

\* C12: after clean every input line with non-empty text is either among
\* the cleaned lines or has its text in credits, never both, and credits
\* holds exactly the removed lines' texts in encounter order
C12_EveryLineAccounted ==
    c_pc = "done" =>
        /\ \A k \in 1..Len(c_input) :
              Strip(c_input[k].txt) # "" =>
                  (InSeq(c_input[k], lines)
                       <=> ~InSeq(Strip(c_input[k].txt), credits))
        /\ credits = RemovedTexts(Len(c_input))

\* C13: the cleaned lines are sorted by start time ascending and lines of
\* equal start time keep their input order, also after the header-scope
\* pass and for inputs whose start times are not monotonic
C13_SortedStable ==
    c_pc = "done" =>
        \A i, j \in 1..Len(lines) :
            i < j =>
                \/ lines[i].st < lines[j].st
                \/ lines[i].st = lines[j].st /\ lines[i].id < lines[j].id

\* C13 witness: an input out of start-time order was cleaned; two of the
\* cleaned lines share a start time and one line moved ahead of a line that
\* preceded it in the input
C13_Witness ==
    /\ c_pc = "done"
    /\ \E i, j \in 1..Len(lines) : i < j /\ lines[i].st = lines[j].st
    /\ \E i, j \in 1..Len(lines) : i < j /\ lines[i].id > lines[j].id

-----------------------------------------------------------------------------
(* Claims about the translation alignment (TransSpec)                      *)

Distance(i, j) == Abs(a_input[i].st - a_trans_map[j].time)

\* the line translation entry j belongs to: the closest one within the
\* tolerance, the earlier one at equal distance; 0 when none is in reach
ClosestLine(j) ==
    LET near == {i \in 1..Len(a_input) : Distance(i, j) <= tolerance} IN
    IF near = {} THEN 0
    ELSE CHOOSE i \in near :
            \A k \in near :
                \/ Distance(i, j) < Distance(k, j)
                \/ Distance(i, j) = Distance(k, j) /\ i <= k

\* C14: after _apply_translations each line carries the text of the last
\* translation entry whose closest line within 0.5 s it is (the earlier line
\* at equal distance), and a line that is no entry's closest line is left
\* as it was; with lines at 10.0 and 10.3 an entry at 10.1 goes to the
\* first line and an entry at 11.0 to no line
C14_ReverseBestMatch ==
    a_pc = "done" =>
        /\ Len(a_lines) = Len(a_input)
        /\ \A i \in 1..Len(a_lines) :
              LET mine == {j \in 1..Len(a_trans_map) : ClosestLine(j) = i} IN
              /\ a_lines[i].st = a_input[i].st
              /\ mine = {} => a_lines[i].trans = a_input[i].trans
              /\ mine # {} =>
                    \E j \in mine :
                        /\ \A m \in mine : m <= j
                        /\ a_lines[i].trans = a_trans_map[j].text
        /\ (Len(a_input) = 2 /\ a_input[1].st = 100 /\ a_input[2].st = 103) =>
              \A j \in 1..Len(a_trans_map) :
                  /\ a_trans_map[j].time = 101 => ClosestLine(j) = 1
                  /\ a_trans_map[j].time = 110 => ClosestLine(j) = 0

-----------------------------------------------------------------------------
(* Claims about the parser (ParseSpec)                                     *)

\* the payload holds no word-level marker
NoWordMarkers ==
    \A k \in 1..Len(segments) : segments[k].content \in {"none", "text"}

\* the lines parse built from segment k
LinesOf(k) == {i \in 1..Len(parsed_lines) : parsed_lines[i].seg = k}

-----------------------------------------------------------------------------
(* Claims about the decrypters (DecryptSpec)                               *)

\* C16 (as stated): decrypting what the matching helper encrypted gives the
\* text back, for QQMusicDecrypt with encrypt_qrc and for KugouDecrypt with
\* encrypt_krc
C16_RoundTrip ==
    (d_pc = "done" /\ d_damage = NoDamage) => d_result = Ok(d_text)

\* base64.b64decode raises on the payload
Base64Malformed == ~B64Decode(d_input).ok

\* the decoded payload has at most 4 bytes
PayloadTooShort ==
    /\ B64Decode(d_input).ok
    /\ Len(B64Decode(d_input).val) <= HEADER_LEN

\* neither zlib.decompress call accepts the payload behind the header
DecompressionFails ==
    /\ B64Decode(d_input).ok
    /\ Len(B64Decode(d_input).val) > HEADER_LEN
    /\ ~DecompressEither(
            XorKey(Tail_(B64Decode(d_input).val, HEADER_LEN + 1))).ok

-----------------------------------------------------------------------------
(* Claims about the /match operation (MatchSpec)                           *)

\* C18: /match calls the Meting path first and the legacy path only after
\* the Meting path answered None; the response is 404 exactly when both
\* answered None, and otherwise the result of the first path that found one
C18_MetingFirstThenLegacy ==
    /\ Len(m_calls) >= 1 => m_calls[1].path = "meting"
    /\ Len(m_calls) <= 2
    /\ Len(m_calls) = 2 => (m_calls[2].path = "legacy" /\ m_meting = None)
    /\ \A i \in 1..Len(m_calls) : m_calls[i].metadata = m_request
    /\ m_pc = "done" =>
          /\ m_response = NotFound <=> (m_meting = None /\ m_legacy = None)
          /\ m_meting.kind = "LyricsData" =>
                (m_response = Found(m_meting) /\ Len(m_calls) = 1)
          /\ (m_meting = None /\ m_legacy.kind = "LyricsData") =>
                m_response = Found(m_legacy)

\* C18 witness: the Meting path answered None, the legacy path was called
\* after it and found lyrics, which the response carries
C18_Witness ==
    /\ m_pc = "done"
    /\ m_meting = None
    /\ Len(m_calls) = 2
    /\ m_legacy.kind = "LyricsData"
    /\ m_response = Found(m_legacy)

-----------------------------------------------------------------------------
(* Claims about the order of the searches (Spec)                           *)

\* the queries sent to the providers so far, one per _execute_search
RECURSIVE IssuedQueries(_)
IssuedQueries(i) ==
    IF i > Len(searched) THEN <<>>
    ELSE [sub \in 1..NSub(searched[i]) |-> QueryOf(searched[i], sub)]
         \o IssuedQueries(i + 1)

\* C19: the strategies run strictly one after another: a provider search that
\* is in flight carries the query of no strategy later in the queue than the
\* one being searched, and the query of every strategy was sent out at most
\* once
C19_StrictlySequential ==
    /\ \A c \in DOMAIN results_list :
          \A k \in 1..Len(search_queue) :
             StrategyQuery(search_queue[k]) = QueryOf(search_queue[qi], c[1])
                => \E j \in 1..qi :
                      StrategyQuery(search_queue[j]) = StrategyQuery(search_queue[k])
    /\ \A k \in 1..Len(search_queue) :
          Cardinality({n \in 1..Len(IssuedQueries(1)) :
                          IssuedQueries(1)[n] = StrategyQuery(search_queue[k])}) <= 1

-----------------------------------------------------------------------------
(* Claims about the shared Meting handle (MetingSpec)                      *)

\* C21: every request through the shared handle returns the body of its own
\* response, or the empty string when all its attempts failed; never the
\* body received for another request
C21_OwnBodyOrEmpty ==
    \A r \in DOMAIN h_pc :
        h_pc[r] = "done" =>
            /\ h_result[r] \in {Text(r), Text(0)}
            /\ h_failed[r] = _retries + 1 => h_result[r] = Text(0)

-----------------------------------------------------------------------------
(* Claims about get_standardized_lyrics (GslSpec)                          *)

\* the parser `name` ran in the call recorded as entry c
Tried(c, name) == \E k \in DOMAIN c.tried : c.tried[k] = name

C27_NoEmptyCacheEntry ==
    /\ g_cache # None => g_cache.lines # <<>>
    /\ \A i, j \in DOMAIN g_log :
          (/\ i < j
           /\ g_log[i].via = "gsl" /\ g_log[j].via = "gsl"
           /\ g_log[i].result # None
           /\ g_log[i].result.lines = <<>>)
             => g_log[j].fetched

\* C28: a result that was fetched, parsed and cleaned in this call and not
\* enriched says "can_enrich", in the value returned and in the cache entry
\* the call wrote
C28_FreshResultCanEnrich ==
    \A i \in DOMAIN g_log :
        (/\ g_log[i].fetched
         /\ ~g_log[i].enriched
         /\ g_log[i].result # None)
           => /\ g_log[i].result.ai_status = "can_enrich"
              /\ (g_log[i].saved /\ i = Len(g_log)) =>
                    g_cache.ai_status = "can_enrich"

\* the entries of the translation map built from the payload's tlyric
PayloadTransMap == TransMapOf(g_text.tlyric, Len(g_text.tlyric))
\* the distance between the start of payload line k and a map entry
StartDistance(k, entry) == Abs(g_text.lrc[k].st - entry.time)
\* payload line k is a timed line closest to the entry, within tolerance
ClosestPayloadLine(k, entry) ==
    /\ g_text.lrc[k].timed
    /\ StartDistance(k, entry) <= tolerance
    /\ \A m \in DOMAIN g_text.lrc :
          g_text.lrc[m].timed => StartDistance(k, entry) <= StartDistance(m, entry)

\* C30: in the JSON path and in _fetch_via_meting every translation within
\* 0.5 s of a line's start is on a line closest to it (where the cleaner
\* kept that line), also when no line starts at the translation's time
C30_TranslationOnClosestLine ==
    \A i \in DOMAIN g_log :
        (g_log[i].fetched /\ Tried(g_log[i], "json") /\ g_log[i].result # None)
           => \A e \in DOMAIN PayloadTransMap :
                 (\E k \in DOMAIN g_text.lrc :
                     ClosestPayloadLine(k, PayloadTransMap[e]))
                   => \E k \in DOMAIN g_text.lrc :
                         /\ ClosestPayloadLine(k, PayloadTransMap[e])
                         /\ \A n \in DOMAIN g_log[i].result.lines :
                               g_log[i].result.lines[n].seg = k =>
                                  g_log[i].result.lines[n].trans
                                     = PayloadTransMap[e].text

-----------------------------------------------------------------------------
(* Claims about the two gathers of a match (RankSpec)                      *)

\* the places a result can hold in the responses: <<sub-search, provider, k>>
Slots ==
    {s \in Calls(RankStrategy) \X (1..MaxRes) :
        s[2] <= Len(o_rl[s[1]].result)}
ResultAt(s) == o_rl[s[1]].result[s[2]]
\* sub-search first, then provider registration order, then response order
SlotNo(s) ==
    ((s[1][1] - 1) * Len(Providers) + (s[1][2] - 1)) * (MaxRes + 1) + s[2]
FirstSlotOf(key) ==
    CHOOSE s \in Slots :
        /\ UniqueKey(ResultAt(s)) = key
        /\ \A t \in Slots :
              UniqueKey(ResultAt(t)) = key => SlotNo(s) <= SlotNo(t)
MergePosition(key) == SlotNo(FirstSlotOf(key))
CandKey(cand) == <<cand.provider, cand.id>>
SameRank(a, b) == ~KeyGreater(a, b) /\ ~KeyGreater(b, a)

\* the merged list holds each distinct result once, as first answered, in
\* sub-search and provider order
MergedInProviderOrder ==
    /\ {UniqueKey(o_merged[i]) : i \in DOMAIN o_merged}
          = {UniqueKey(ResultAt(s)) : s \in Slots}
    /\ \A i \in DOMAIN o_merged :
          o_merged[i] = ResultAt(FirstSlotOf(UniqueKey(o_merged[i])))
    /\ \A i, j \in DOMAIN o_merged :
          i < j => MergePosition(UniqueKey(o_merged[i]))
                      < MergePosition(UniqueKey(o_merged[j]))

\* the candidates are the merged results that pass the threshold, in
\* descending (is_syllable, score) order, equal keys in merge order
RankedInMergeOrder ==
    /\ {CandKey(o_cands[i]) : i \in DOMAIN o_cands}
          = {UniqueKey(o_merged[i]) : i \in
                {k \in DOMAIN o_merged :
                    Score(RankStrategy, o_merged[k]) >= Threshold}}
    /\ \A i \in DOMAIN o_cands :
          \E k \in DOMAIN o_merged :
             /\ UniqueKey(o_merged[k]) = CandKey(o_cands[i])
             /\ o_cands[i].score = Score(RankStrategy, o_merged[k])
             /\ o_cands[i].is_syllable
                   = IsSyllableProvider(o_merged[k].provider)
    /\ \A i, j \in DOMAIN o_cands :
          i < j =>
             /\ ~KeyGreater(o_cands[j], o_cands[i])
             /\ SameRank(o_cands[i], o_cands[j]) =>
                   MergePosition(CandKey(o_cands[i]))
                      < MergePosition(CandKey(o_cands[j]))

\* i is the best of the set S of top candidates: highest score, and the
\* earliest candidate among those of that score
BestOf(i, S) ==
    /\ i \in S
    /\ \A j \in S :
          \/ o_cands[j].score < o_cands[i].score
          \/ o_cands[j].score = o_cands[i].score /\ i <= j

\* the result is the best candidate with lyrics, else the best instrumental
\* one, else None
ResultByScore ==
    LET vocal == {i \in DOMAIN o_data :
                     o_data[i] # NoLyrics /\ ~IsInstrumental(o_data[i])}
        instrumental == {i \in DOMAIN o_data :
                            o_data[i] # NoLyrics /\ IsInstrumental(o_data[i])}
    IN  IF vocal # {} THEN BestOf(o_result, vocal)
        ELSE IF instrumental # {} THEN BestOf(o_result, instrumental)
        ELSE o_result = 0

\* C23: whatever the order in which the searches and the fetches complete,
\* the merged list is in sub-search and provider order, the ranking keeps
\* merge order among equal (is_syllable, score) keys, and the result is
\* fixed by the candidates and what their fetches returned
C23_CompletionOrderIrrelevant ==
    /\ o_pc \in {"fetching", "done"} =>
          MergedInProviderOrder /\ RankedInMergeOrder
    /\ o_pc = "done" => ResultByScore

\* two candidates of equal key whose responses arrived against provider
\* order, fetched in reverse order, and a result returned
C23_Witness ==
    /\ o_pc = "done"
    /\ o_result > 0
    /\ Len(o_cands) = 2
    /\ SameRank(o_cands[1], o_cands[2])
    /\ o_done = <<2, 1>>
    /\ \E s, t \in Slots :
          /\ SlotNo(s) < SlotNo(t)
          /\ o_rl[s[1]].at > o_rl[t[1]].at

\* the calls of the search whose provider did not answer
FailedCalls == {c \in DOMAIN o_rl : o_rl[c].how \in {"raised", "timeout"}}
ProviderIndex(name) == CHOOSE p \in 1..Len(Providers) : Providers[p] = name
\* the sub-search whose response put this result into the merged list
SubSearchOf(res) == FirstSlotOf(UniqueKey(res))[1][1]

\* C24: once every provider task has ended, the search goes on (it did not
\* raise); a provider that raised or timed out contributed no result; every
\* result of every provider that answered is in the merged list, and within
\* a sub-search the results are in provider-registration order
C24_FailedProviderIsolated ==
    /\ (o_pc = "searching" /\ \A c \in DOMAIN o_rl : o_rl[c].status = "done")
          => ENABLED MergeAndRank
    /\ o_pc \in {"fetching", "done"} =>
          /\ \A c \in FailedCalls : o_rl[c].result = <<>>
          /\ \A c \in DOMAIN o_rl : \A k \in DOMAIN o_rl[c].result :
                \E i \in DOMAIN o_merged :
                   UniqueKey(o_merged[i]) = UniqueKey(o_rl[c].result[k])
          /\ \A i \in DOMAIN o_merged :
                \E c \in DOMAIN o_rl \ FailedCalls :
                   \E k \in DOMAIN o_rl[c].result :
                      o_rl[c].result[k] = o_merged[i]
          /\ \A i, j \in DOMAIN o_merged :
                (i < j /\ SubSearchOf(o_merged[i]) = SubSearchOf(o_merged[j]))
                   => ProviderIndex(o_merged[i].provider)
                         <= ProviderIndex(o_merged[j].provider)

\* the first provider raised, the second timed out in the other sub-search,
\* and the results of the providers that answered were ranked and fetched
C24_Witness ==
    /\ o_pc = "done"
    /\ o_rl[<<1, 1>>].how = "raised"
    /\ o_rl[<<2, 2>>].how = "timeout"
    /\ o_rl[<<1, 2>>].result # <<>>
    /\ o_rl[<<2, 1>>].result # <<>>
    /\ Len(o_merged) = 2
    /\ o_merged[1].provider = Providers[2]

\* C29: clean applied to a cleaned result removes no further line
C29_CleanIdempotent == [][c_pc = "done" => lines' = lines]_vars

-----------------------------------------------------------------------------
(* More claims about the fetch phase (FetchSpec)                           *)

\* C26: match_best_lyrics never returns a result without lines; when every
\* candidate that produced a result produced one without lines, it returns
\* None
C26_NeverReturnsZeroLines ==
    (f_pc = "done" /\ f_result > 0) => lyrics_data[f_result].n > 0

-----------------------------------------------------------------------------
(* More claims about LyricsCleaner (CleanSpec)                             *)

\* the list clean hands to clean_header_metadata
HeaderPassInput == SortByStart(clean_lines, Len(clean_lines))
\* the lines the pass scans
Scanned == 1..(IF Len(HeaderPassInput) < 5 THEN Len(HeaderPassInput) ELSE 5)

\* C25: the header pass returns lines[k:], k the place of the last of the
\* first 5 lines that matches (0 without one); lines before it go with the
\* block whether they match or not, and no line from index 5 on is removed
C25_CutBehindLastMatch ==
    (c_pc = "done" /\ c_input # <<>>) =>
        \E k \in {0} \cup Scanned :
            /\ k # 0 => ShouldDelete(HeaderPassInput[k])
            /\ \A i \in Scanned : i > k => ~ShouldDelete(HeaderPassInput[i])
            /\ Len(lines) = Len(HeaderPassInput) - k
            /\ \A i \in 1..Len(lines) : lines[i] = HeaderPassInput[k + i]
            /\ \A i \in 6..Len(HeaderPassInput) :
                  lines[i - k] = HeaderPassInput[i]

\* a line that does not match is cut because a later one of the first 5
\* matches, and the lines behind the first 5 are all still there
C25_Witness ==
    /\ c_pc = "done"
    /\ Len(HeaderPassInput) > 5
    /\ ~ShouldDelete(HeaderPassInput[1])
    /\ ~ShouldDelete(HeaderPassInput[2])
    /\ ShouldDelete(HeaderPassInput[3])
    /\ Len(lines) = Len(HeaderPassInput) - 3
    /\ lines[1] = HeaderPassInput[4]

====
